---- MODULE Spec2Model ----
(***************************************************************************)
(* Model of the type-detection engine of the expense bot (src/bot.py):     *)
(* detect_types, match_keywords, get_types_data and refresh_types_data,    *)
(* with the module-level cache _data_cache, the persistent types store     *)
(* (types_data.json) and the keyword source (keywords.json).               *)
(*                                                                         *)
(* A Python str is a sequence of one-character strings, so that lower(),   *)
(* split() and fuzz.ratio are computed, not assumed.  A Python dict is a   *)
(* sequence of [key, item] pairs in insertion order.                       *)
(***************************************************************************)
EXTENDS Integers, Sequences, FiniteSets, TLC

VARIABLES
    keywords_json,  \* content of the file "keywords.json"
    types_json,     \* content of the file config.types_data_json
    _data_cache,    \* the module-level dict of bot.py, in insertion order
    sheet,          \* the expense rows of the Google sheet
    loads,          \* history: reads of the store by get_types_data since the process started
    last,           \* history: the last operation, its inputs and what it returned
    reminders_json, \* content of the file config.reminders_json
    cards,          \* the rows of the credit card range of the Google sheet
    config,         \* the Config object: tokens and allowed ids
    conv,           \* ConversationHandler: the state of each conversation
    show_markup     \* context.user_data['show_markup'] of each user (FALSE: not set)

\* what the type-detection engine does not touch
others == <<reminders_json, cards, config, conv, show_markup>>

vars == <<keywords_json, types_json, sheet, _data_cache, loads, last,
          reminders_json, cards, config, conv, show_markup>>

----------------------------------------------------------------------------
(* Bounds *)

MaxStore == 2   \* records in the persistent store
MaxRows  == 2   \* rows of the sheet
MaxLoads == 2   \* store reads by get_types_data that are counted per process
MaxLen   == 3   \* characters of a description given to match_keywords
MaxKeywords == 2  \* keywords of a list given to match_keywords
MaxReminders == 2 \* entries of the reminders file
MaxCards == 2   \* rows of the credit card range

(* Program constants *)

\* ConversationHandler.END
END == -1

\* a handler returns None, or no handler runs: the state is kept
NoState == -2

\* a threshold that only an exact match can pass
FUZZY_MATCH_THRESHOLD_97 == 97

FUZZY_MATCH_THRESHOLD == 75

----------------------------------------------------------------------------
(* Strings *)

\* str.lower() on one character
LowerChar(c) ==
    CASE c = "A" -> "a"
      [] c = "B" -> "b"
      [] c = "C" -> "c"
      [] c = "D" -> "d"
      [] c = "E" -> "e"
      [] c = "I" -> "i"
      [] c = "P" -> "p"
      [] OTHER   -> c

\* str.lower()
Lower(s) == [i \in 1..Len(s) |-> LowerChar(s[i])]

\* str.split(): the maximal runs of non-whitespace characters, in order
RECURSIVE SplitFrom(_, _, _)
SplitFrom(s, i, word) ==
    IF i > Len(s)
    THEN IF word = <<>> THEN <<>> ELSE <<word>>
    ELSE IF s[i] = " "
         THEN IF word = <<>>
              THEN SplitFrom(s, i + 1, <<>>)
              ELSE <<word>> \o SplitFrom(s, i + 1, <<>>)
         ELSE SplitFrom(s, i + 1, Append(word, s[i]))

Split(s) == SplitFrom(s, 1, <<>>)

----------------------------------------------------------------------------
(* fuzz.ratio: int(round(100 * SequenceMatcher(None, s1, s2).ratio())) *)

\* length of the common run of a and b that starts at a[i], b[j]
RECURSIVE RunLen(_, _, _, _, _, _)
RunLen(a, b, i, j, ahi, bhi) ==
    IF i <= ahi /\ j <= bhi /\ a[i] = b[j]
    THEN 1 + RunLen(a, b, i + 1, j + 1, ahi, bhi)
    ELSE 0

\* SequenceMatcher.find_longest_match on a[alo..ahi], b[blo..bhi]: the longest
\* block, of those the one starting earliest in a, of those earliest in b
find_longest_match(a, b, alo, ahi, blo, bhi) ==
    LET blocks == {[i |-> i, j |-> j, k |-> RunLen(a, b, i, j, ahi, bhi)] :
                       i \in alo..ahi, j \in blo..bhi}
        Better(x, y) == \/ x.k > y.k
                        \/ x.k = y.k /\ x.i < y.i
                        \/ x.k = y.k /\ x.i = y.i /\ x.j <= y.j
    IN  CHOOSE x \in blocks : \A y \in blocks : Better(x, y)

\* SequenceMatcher.get_matching_blocks, summed: the matched characters
RECURSIVE matching_size(_, _, _, _, _, _)
matching_size(a, b, alo, ahi, blo, bhi) ==
    IF alo > ahi \/ blo > bhi
    THEN 0
    ELSE LET m == find_longest_match(a, b, alo, ahi, blo, bhi)
         IN  IF m.k = 0
             THEN 0
             ELSE m.k + matching_size(a, b, alo, m.i - 1, blo, m.j - 1)
                      + matching_size(a, b, m.i + m.k, ahi, m.j + m.k, bhi)

\* Python round() of n/d for n, d > 0: to nearest, ties to even
RoundDiv(n, d) ==
    LET q == n \div d
        r == n % d
    IN  IF 2 * r < d THEN q
        ELSE IF 2 * r > d THEN q + 1
        ELSE IF q % 2 = 0 THEN q ELSE q + 1

ratio(s1, s2) ==
    IF s1 = s2 THEN 100                       \* utils.check_for_equivalence
    ELSE IF Len(s1) = 0 \/ Len(s2) = 0 THEN 0 \* utils.check_empty_string
    ELSE RoundDiv(200 * matching_size(s1, s2, 1, Len(s1), 1, Len(s2)),
                  Len(s1) + Len(s2))

----------------------------------------------------------------------------
(* match_keywords *)

SeqToSet(s) == {s[i] : i \in 1..Len(s)}

\* s[i..] starts with w
StartsAt(w, s, i) ==
    i + Len(w) - 1 <= Len(s) /\ \A k \in 1..Len(w) : s[i + k - 1] = w[k]

\* matching by containment: some lowercased keyword occurs in the lowercased
\* description
match_keywords_substring(description, keywords) ==
    \E n \in 1..Len(keywords) :
        \E i \in 1..(Len(description) + 1) :
            StartsAt(Lower(keywords[n]), Lower(description), i)

match_keywords(description, keywords) ==
    LET words        == Split(Lower(description))
        keywords_set == {Lower(k) : k \in SeqToSet(keywords)}
        matches      == SelectSeq(words, LAMBDA word : word \in keywords_set)
    IN  Len(matches) > 0

----------------------------------------------------------------------------
(* The module-level dict _data_cache: [key, item] pairs in insertion order *)

CacheKeys(cache) == {cache[i].key : i \in 1..Len(cache)}

\* CachePut that keeps the item of a key that is present (first write wins)
CachePut_keep_first(cache, key, item) ==
    IF key \in {cache[i].key : i \in 1..Len(cache)}
    THEN cache
    ELSE Append(cache, [key |-> key, item |-> item])

\* _data_cache[key] = item: a present key keeps its position
CachePut(cache, key, item) ==
    IF key \in CacheKeys(cache)
    THEN [i \in 1..Len(cache) |->
             IF cache[i].key = key THEN [key |-> key, item |-> item] ELSE cache[i]]
    ELSE Append(cache, [key |-> key, item |-> item])

\* _data_cache.get(key), for a key that is present
CacheGet(cache, key) ==
    LET i == CHOOSE i \in 1..Len(cache) : cache[i].key = key
    IN  cache[i].item

\* item.get('desc') of a record that has no "desc" field
NoDesc == <<"None">>

\* the test of main_type alone
HasTypes_main_only(item) == item.main_type # ""

\* item.get('main_type') and item.get('sub_type')
HasTypes(item) == item.main_type # "" /\ item.sub_type # ""

\* for item in json_file: _data_cache[item.get('desc').lower()] = item
\* (None.lower() raises AttributeError and leaves the entries put so far)
RECURSIVE LoadItems(_, _)
LoadItems(cache, items) ==
    IF items = <<>>
    THEN [cache |-> cache, exc |-> "none"]
    ELSE IF Head(items).desc = NoDesc
         THEN [cache |-> cache, exc |-> "AttributeError"]
         ELSE LoadItems(CachePut(cache, Lower(Head(items).desc), Head(items)),
                        Tail(items))

----------------------------------------------------------------------------
(* get_types_data *)

\* get_types_data_try without the filter on main_type and sub_type
get_types_data_try_unfiltered(cache, store) ==
    CASE store.status = "missing"     -> [cache |-> cache, exc |-> "FileNotFoundError"]
      [] store.status = "unparseable" -> [cache |-> cache, exc |-> "JSONDecodeError"]
      [] store.status = "notlist"     -> [cache |-> cache, exc |-> "AttributeError"]
      [] OTHER -> LoadItems(cache, store.records)

\* the body of the try block: what the cache is when the block is left, and
\* the exception that left it
get_types_data_try(cache, store) ==
    CASE store.status = "missing"     -> [cache |-> cache, exc |-> "FileNotFoundError"]
      [] store.status = "unparseable" -> [cache |-> cache, exc |-> "JSONDecodeError"]
      [] store.status = "notlist"     -> [cache |-> cache, exc |-> "AttributeError"]
      [] OTHER -> LoadItems(cache, SelectSeq(store.records, HasTypes))

\* cache: the cache after the call; read: the store file was opened;
\* raised: an exception left the function
\* the except clauses: FileNotFoundError, json.JSONDecodeError, Exception
get_types_data_handles(exc) ==
    exc \in {"FileNotFoundError", "JSONDecodeError", "AttributeError"}

\* get_types_data without the test of the cache: the store is read at each call
get_types_data_always_loads(cache, store) ==
    LET t == get_types_data_try(cache, store)
    IN  [cache |-> t.cache, read |-> TRUE,
         raised |-> t.exc # "none" /\ ~get_types_data_handles(t.exc)]

get_types_data(cache, store) ==
    IF cache # <<>>
    THEN [cache |-> cache, read |-> FALSE, raised |-> FALSE]
    ELSE LET t == get_types_data_try(cache, store)
         IN  [cache |-> t.cache, read |-> TRUE,
              raised |-> t.exc # "none" /\ ~get_types_data_handles(t.exc)]

----------------------------------------------------------------------------
(* detect_types *)

NoTypes == <<"", "">>

\* the inner try block with the groceries rule tried first
keyword_stage_groceries_first(desc_lower, kw) ==
    CASE kw.status = "missing"     -> "skip"
      [] kw.status = "unparseable" -> "skip"
      [] kw.status = "notmapping"  -> "raise"
      [] OTHER ->
           IF match_keywords(desc_lower, kw.groceries) THEN "groceries"
           ELSE IF match_keywords(desc_lower, kw.food) THEN "food"
           ELSE "skip"

\* the inner try block on keywords.json: the rule that returned, "skip" when
\* the block ends or its handler runs, "raise" when an exception leaves it
keyword_stage(desc_lower, kw) ==
    CASE kw.status = "missing"     -> "skip"     \* FileNotFoundError
      [] kw.status = "unparseable" -> "skip"     \* json.JSONDecodeError
      [] kw.status = "notmapping"  -> "raise"    \* keywords.get: AttributeError
      [] OTHER ->
           IF match_keywords(desc_lower, kw.food) THEN "food"
           ELSE IF match_keywords(desc_lower, kw.groceries) THEN "groceries"
           ELSE "skip"

\* item.get("main_type", ""), item.get("sub_type", "")
TypesOf(item) == <<item.main_type, item.sub_type>>

\* fuzzy_match that returns the best-scoring entry above the threshold
fuzzy_match_best(cache, desc_lower, i) ==
    LET above == {n \in i..Len(cache) :
                     ratio(cache[n].key, desc_lower) > FUZZY_MATCH_THRESHOLD}
    IN  IF above = {}
        THEN [stage |-> "none", result |-> NoTypes]
        ELSE LET best == CHOOSE n \in above : \A o \in above :
                             \/ ratio(cache[n].key, desc_lower) > ratio(cache[o].key, desc_lower)
                             \/ /\ ratio(cache[n].key, desc_lower) = ratio(cache[o].key, desc_lower)
                                /\ n <= o
             IN  [stage |-> "fuzzy", result |-> TypesOf(cache[best].item)]

\* the fuzzy loop over _data_cache.items(), from entry i on
RECURSIVE fuzzy_match(_, _, _)
fuzzy_match(cache, desc_lower, i) ==
    IF i > Len(cache)
    THEN [stage |-> "none", result |-> NoTypes]
    ELSE IF ratio(cache[i].key, desc_lower) > FUZZY_MATCH_THRESHOLD
         THEN [stage |-> "fuzzy", result |-> TypesOf(cache[i].item)]
         ELSE fuzzy_match(cache, desc_lower, i + 1)

\* cache_stage without the exact lookup: the fuzzy loop alone
cache_stage_fuzzy_only(desc_lower, cache, store) ==
    LET g == get_types_data(cache, store)
        m == fuzzy_match(g.cache, desc_lower, 1)
    IN  [stage |-> m.stage, result |-> m.result, cache |-> g.cache,
         read |-> g.read, raised |-> g.raised]

\* the cache stage: get_types_data, exact match, fuzzy match
cache_stage(desc_lower, cache, store) ==
    LET g == get_types_data(cache, store)
        m == IF desc_lower \in CacheKeys(g.cache)
             THEN [stage |-> "exact", result |-> TypesOf(CacheGet(g.cache, desc_lower))]
             ELSE fuzzy_match(g.cache, desc_lower, 1)
    IN  IF g.raised
        THEN [stage |-> "error", result |-> NoTypes, cache |-> g.cache,
              read |-> g.read, raised |-> TRUE]
        ELSE [stage |-> m.stage, result |-> m.result, cache |-> g.cache,
              read |-> g.read, raised |-> FALSE]

\* detect_types_try with the cache stage tried before the keyword rules
detect_types_try_cache_first(desc, kw, cache, store) ==
    LET desc_lower == Lower(desc)
        c          == cache_stage(desc_lower, cache, store)
        k          == keyword_stage(desc_lower, kw)
    IN  CASE c.stage \in {"exact", "fuzzy"} -> c
          [] k = "food" ->
               [c EXCEPT !.stage = "food", !.result = <<"Food", "Outside Food/Dining/Snacks">>]
          [] k = "groceries" ->
               [c EXCEPT !.stage = "groceries", !.result = <<"Household", "Groceries">>]
          [] k = "raise" ->
               [c EXCEPT !.stage = "error", !.result = NoTypes, !.raised = TRUE]
          [] OTHER -> c

\* the outer try block
detect_types_try(desc, kw, cache, store) ==
    LET desc_lower == Lower(desc)
        k          == keyword_stage(desc_lower, kw)
    IN  CASE k = "food" ->
               [stage |-> "food", result |-> <<"Food", "Outside Food/Dining/Snacks">>,
                cache |-> cache, read |-> FALSE, raised |-> FALSE]
          [] k = "groceries" ->
               [stage |-> "groceries", result |-> <<"Household", "Groceries">>,
                cache |-> cache, read |-> FALSE, raised |-> FALSE]
          [] k = "raise" ->
               [stage |-> "error", result |-> NoTypes,
                cache |-> cache, read |-> FALSE, raised |-> TRUE]
          [] OTHER -> cache_stage(desc_lower, cache, store)

\* detect_types without the outer handler: the exception reaches the caller
detect_types_unguarded(desc, kw, cache, store) ==
    detect_types_try(desc, kw, cache, store)

\* except Exception: return "", ""
detect_types(desc, kw, cache, store) ==
    LET t == detect_types_try(desc, kw, cache, store)
    IN  IF t.raised
        THEN [t EXCEPT !.result = NoTypes, !.raised = FALSE]
        ELSE t

----------------------------------------------------------------------------
(* refresh_types_data *)

\* HumanTyped without the test of bot_identified
HumanTyped_any_author(exp) ==
    exp.main_type # "" /\ exp.sub_type # ""

\* exp.main_type and exp.sub_type and exp.bot_identified != "Yes"
HumanTyped(exp) ==
    exp.main_type # "" /\ exp.sub_type # "" /\ exp.bot_identified # "Yes"

\* {"desc": exp.desc, "main_type": exp.main_type, "sub_type": exp.sub_type}
NewType(exp) ==
    [desc |-> exp.desc, main_type |-> exp.main_type, sub_type |-> exp.sub_type]

\* the store branch without the test against existing_descs
refresh_store_appends_all(new_types, store, write_ok) ==
    CASE store.status = "missing" ->
           IF write_ok
           THEN [exc |-> "none", json_file |-> new_types,
                 store |-> [status |-> "list", records |-> new_types]]
           ELSE [exc |-> "OSError", json_file |-> <<>>, store |-> store]
      [] store.status = "unparseable" ->
           [exc |-> "JSONDecodeError", json_file |-> <<>>, store |-> store]
      [] store.status = "notlist" ->
           [exc |-> "AttributeError", json_file |-> <<>>, store |-> store]
      [] OTHER ->
           IF \E i \in 1..Len(store.records) : store.records[i].desc = NoDesc
           THEN [exc |-> "AttributeError", json_file |-> <<>>, store |-> store]
           ELSE IF write_ok
           THEN [exc |-> "none", json_file |-> store.records \o new_types,
                 store |-> [status |-> "list",
                            records |-> store.records \o new_types]]
           ELSE [exc |-> "OSError", json_file |-> <<>>, store |-> store]

\* the store branch: the list json_file and the store as written, or the
\* exception raised before anything is written (write_ok: open(..., 'w')
\* succeeds)
refresh_store(new_types, store, write_ok) ==
    CASE store.status = "missing" ->
           IF write_ok
           THEN [exc |-> "none", json_file |-> new_types,
                 store |-> [status |-> "list", records |-> new_types]]
           ELSE [exc |-> "OSError", json_file |-> <<>>, store |-> store]
      [] store.status = "unparseable" ->
           [exc |-> "JSONDecodeError", json_file |-> <<>>, store |-> store]
      [] store.status = "notlist" ->
           [exc |-> "AttributeError", json_file |-> <<>>, store |-> store]
      [] OTHER ->
           IF \E i \in 1..Len(store.records) : store.records[i].desc = NoDesc
           THEN [exc |-> "AttributeError", json_file |-> <<>>, store |-> store]
           ELSE LET existing_descs ==
                        {Lower(store.records[i].desc) : i \in 1..Len(store.records)}
                    unseen == SelectSeq(new_types,
                                  LAMBDA item : Lower(item.desc) \notin existing_descs)
                    json_file == store.records \o unseen
                IN  IF write_ok
                    THEN [exc |-> "none", json_file |-> json_file,
                          store |-> [status |-> "list", records |-> json_file]]
                    ELSE [exc |-> "OSError", json_file |-> <<>>, store |-> store]

\* the reload left out: the cache stays as it was
reload_cache_skipped(cache, json_file) == cache

\* the reload after the write: every record of json_file that has both types
\* is put into _data_cache
reload_cache(cache, json_file) ==
    LoadItems(cache, SelectSeq(json_file, HasTypes)).cache

\* what can fail in a run besides the store's content: nothing, the fetch of
\* the sheet, the opening of the store for writing, the sending of a message
Faults == {"none", "fetch", "write", "send"}

\* the body of the try block with a cache that is rebuilt from the fetched
\* rows alone
refresh_types_data_try_caches_rows(expense_list, fault, cache, store) ==
    LET filtered_list == SelectSeq(expense_list.rows, HumanTyped)
        new_types == [i \in 1..Len(filtered_list) |-> NewType(filtered_list[i])]
        w == refresh_store(new_types, store, fault # "write")
    IN  IF w.exc # "none"
        THEN [exc |-> w.exc, store |-> w.store, cache |-> cache]
        ELSE [exc |-> IF fault = "send" THEN "TelegramError" ELSE "none",
              store |-> w.store, cache |-> reload_cache(<<>>, new_types)]

\* the body of the try block: exc is the exception that ends it
\* expense_list: the rows that get_expense_data returned
refresh_types_data_try(expense_list, fault, cache, store) ==
    LET filtered_list == SelectSeq(expense_list.rows, HumanTyped)
        new_types == [i \in 1..Len(filtered_list) |-> NewType(filtered_list[i])]
        w == refresh_store(new_types, store, fault # "write")
    IN  IF w.exc # "none"
        THEN [exc |-> w.exc, store |-> w.store, cache |-> cache]
        ELSE [exc |-> IF fault = "send" THEN "TelegramError" ELSE "none",
              store |-> w.store, cache |-> reload_cache(cache, w.json_file)]

\* except clauses that leave out the last one
refresh_types_data_handles_two(exc) ==
    exc \in {"FileNotFoundError", "JSONDecodeError"}

\* the except clauses: FileNotFoundError, json.JSONDecodeError, Exception
refresh_types_data_handles(exc) ==
    exc \in {"FileNotFoundError", "JSONDecodeError", "AttributeError",
             "OSError", "TelegramError"}

\* the "message" of the result
refresh_message(exc) ==
    CASE exc = "none"              -> "Types data refreshed successfully."
      [] exc = "FileNotFoundError" -> "File not found: {e}"
      [] exc = "JSONDecodeError"   -> "JSON error: {e}"
      [] OTHER                     -> "{e}"

\* expense_list: what get_expense_data returned (an error string or rows);
\* the result: status and message as returned, raised when an exception
\* reaches the invoker, and the store and the cache as the run leaves them
refresh_types_data(expense_list, fault, cache, store) ==
    IF expense_list.error
    THEN [status |-> "error", message |-> "Error! {e}",
          raised |-> FALSE, store |-> store, cache |-> cache]
    ELSE LET t == refresh_types_data_try(expense_list, fault, cache, store)
         IN  IF t.exc = "none"
             THEN [status |-> "success", message |-> refresh_message(t.exc),
                   raised |-> FALSE, store |-> t.store, cache |-> t.cache]
             ELSE IF refresh_types_data_handles(t.exc)
             THEN [status |-> "error", message |-> refresh_message(t.exc),
                   raised |-> FALSE, store |-> t.store, cache |-> t.cache]
             ELSE [status |-> "none", message |-> "",
                   raised |-> TRUE, store |-> t.store, cache |-> t.cache]

----------------------------------------------------------------------------
(* update_google_sheet *)

\* the row written with bot_identified "No" whatever detect_types returned
NewExpenseRow_unflagged(description, types) ==
    [desc |-> description, main_type |-> types[1], sub_type |-> types[2],
     bot_identified |-> "No"]

\* bot_identified = "Yes" if main_type else "No", and the values of the row
\* (types: what detect_types returned)
NewExpenseRow(description, types) ==
    [desc |-> description, main_type |-> types[1], sub_type |-> types[2],
     bot_identified |-> IF types[1] # "" THEN "Yes" ELSE "No"]

\* what can fail in a call: nothing, build(...) before the classification, or
\* the append request after it
SheetFaults == {"none", "build", "append"}

\* d: what detect_types leaves and returns (not called when build fails);
\* rows: the sheet after the call; error: an error string is returned
update_google_sheet(description, fault, kw, cache, store, rows) ==
    IF fault = "build"
    THEN [called |-> FALSE, error |-> TRUE, rows |-> rows,
          d |-> [stage |-> "none", result |-> NoTypes, cache |-> cache,
                 read |-> FALSE, raised |-> FALSE]]
    ELSE LET d == detect_types(description, kw, cache, store)
         IN  IF fault = "append"
             THEN [called |-> TRUE, error |-> TRUE, rows |-> rows, d |-> d]
             ELSE [called |-> TRUE, error |-> FALSE, d |-> d,
                   rows |-> Append(rows, NewExpenseRow(description, d.result))]

----------------------------------------------------------------------------
(* get_expense_data: the rows of the sheet, or an error string *)

\* a read of the store, as counted in loads
Count(read) == IF read THEN 1 ELSE 0

get_expense_data(rows, fetch_ok) ==
    IF fetch_ok
    THEN [error |-> FALSE, rows |-> rows]
    ELSE [error |-> TRUE, rows |-> <<>>]

----------------------------------------------------------------------------
(* applicable_reminders and active_reminders *)

REMINDER_DATE_RANGE_SEPARATOR == "-"

Digits == <<"0", "1", "2", "3", "4", "5", "6", "7", "8", "9">>

IsDigit(c) == \E i \in 1..10 : Digits[i] = c

DigitValue(c) == (CHOOSE i \in 1..10 : Digits[i] = c) - 1

\* int(s) of a str made of digits; NaN stands for the ValueError that int
\* raises on the empty str and on any other character
NaN == -1

RECURSIVE ParseIntFrom(_, _, _)
ParseIntFrom(s, i, acc) ==
    IF i > Len(s) THEN acc
    ELSE ParseIntFrom(s, i + 1, 10 * acc + DigitValue(s[i]))

ParseInt(s) ==
    IF s = <<>> \/ \E i \in 1..Len(s) : ~IsDigit(s[i])
    THEN NaN
    ELSE ParseIntFrom(s, 1, 0)

\* s.split(sep) with a separator of one character: the pieces between the
\* separators, the empty ones included
RECURSIVE SplitOnFrom(_, _, _, _, _)
SplitOnFrom(s, sep, i, piece, acc) ==
    IF i > Len(s) THEN Append(acc, piece)
    ELSE IF s[i] = sep
         THEN SplitOnFrom(s, sep, i + 1, <<>>, Append(acc, piece))
         ELSE SplitOnFrom(s, sep, i + 1, Append(piece, s[i]), acc)

SplitOn(s, sep) == SplitOnFrom(s, sep, 1, <<>>, <<>>)

\* _start, _end = map(int, date_range.split("-")): the two numbers, or a
\* ValueError when there are not two pieces or a piece is not a number
DateRange(date_range) ==
    LET parts == SplitOn(date_range, REMINDER_DATE_RANGE_SEPARATOR)
    IN  IF Len(parts) # 2 \/ ParseInt(parts[1]) = NaN \/ ParseInt(parts[2]) = NaN
        THEN [error |-> TRUE, start |-> 0, end |-> 0]
        ELSE [error |-> FALSE, start |-> ParseInt(parts[1]), end |-> ParseInt(parts[2])]

HasSeparator(date_range) ==
    \E i \in 1..Len(date_range) : date_range[i] = REMINDER_DATE_RANGE_SEPARATOR

\* the loop over the reminders of the file from entry i on; the ValueError of
\* an entry leaves the loop for the except clause, which keeps today_reminders
RECURSIVE applicable_loop(_, _, _, _)
applicable_loop(reminders, today, i, today_reminders) ==
    IF i > Len(reminders) THEN today_reminders
    ELSE LET rem == reminders[i]
         IN  IF ~HasSeparator(rem.date_range)
             THEN applicable_loop(reminders, today, i + 1, today_reminders)
             ELSE LET r == DateRange(rem.date_range)
                  IN  IF r.error THEN today_reminders
                      ELSE IF r.start <= today /\ today <= r.end
                           THEN applicable_loop(reminders, today, i + 1,
                                                Append(today_reminders, rem))
                           ELSE applicable_loop(reminders, today, i + 1,
                                                today_reminders)

\* file: the reminders file (missing: FileNotFoundError; unparseable: the
\* ValueError of json.load); every exception is caught and the list is returned
applicable_reminders(file, today) ==
    IF file.status # "list" THEN <<>>
    ELSE applicable_loop(file.reminders, today, 1, <<>>)

\* [exp for exp in exp_list if exp.main_type != "" and exp.sub_type != ""]
RECURSIVE valid_expenses_from(_, _)
valid_expenses_from(exp_list, i) ==
    IF i > Len(exp_list) THEN <<>>
    ELSE IF exp_list[i].main_type # "" /\ exp_list[i].sub_type # ""
         THEN <<exp_list[i]>> \o valid_expenses_from(exp_list, i + 1)
         ELSE valid_expenses_from(exp_list, i + 1)

\* an expense is found for the reminder when its main_type alone agrees
Logged_main_only(rem, valid_expenses) ==
    \E k \in 1..Len(valid_expenses) : valid_expenses[k].main_type = rem.main_type

\* exp.main_type == rem["main_type"] and exp.sub_type == rem["sub_type"] for
\* one of the valid expenses
Logged(rem, valid_expenses) ==
    \E k \in 1..Len(valid_expenses) :
        /\ valid_expenses[k].main_type = rem.main_type
        /\ valid_expenses[k].sub_type = rem.sub_type

\* the loop that keeps the reminders for which no valid expense is found
RECURSIVE filtered_reminders_from(_, _, _)
filtered_reminders_from(reminders_list, valid_expenses, i) ==
    IF i > Len(reminders_list) THEN <<>>
    ELSE IF Logged(reminders_list[i], valid_expenses)
         THEN filtered_reminders_from(reminders_list, valid_expenses, i + 1)
         ELSE <<reminders_list[i]>>
                  \o filtered_reminders_from(reminders_list, valid_expenses, i + 1)

\* rows: the sheet; fetch_ok: get_expense_data returns the rows (otherwise it
\* returns an error string, whose characters have no main_type: AttributeError)
active_reminders(file, today, rows, fetch_ok) ==
    LET reminders_list == applicable_reminders(file, today)
    IN  IF reminders_list = <<>>
        THEN [raised |-> FALSE, reminders |-> <<>>, applicable |-> reminders_list]
        ELSE LET exp_list == get_expense_data(rows, fetch_ok)
             IN  IF exp_list.error
                 THEN [raised |-> TRUE, reminders |-> <<>>, applicable |-> reminders_list]
                 ELSE [raised |-> FALSE, applicable |-> reminders_list,
                       reminders |->
                           filtered_reminders_from(reminders_list,
                               valid_expenses_from(exp_list.rows, 1), 1)]

----------------------------------------------------------------------------
(* get_credit_card_data and handle_credit_card_reminders *)

\* a cell that the sheet does not hold (dict.get returns None)
None == "None"

\* the dict built from a row of four cells or more
Card(row) == [due_date |-> row[1], name |-> row[2], amount |-> row[3], status |-> row[4]]

\* the rows of the range with at least four cells, as dicts; [] on any error
RECURSIVE card_list_from(_, _)
card_list_from(values, i) ==
    IF i > Len(values) THEN <<>>
    ELSE IF Len(values[i]) >= 4
         THEN <<Card(values[i])>> \o card_list_from(values, i + 1)
         ELSE card_list_from(values, i + 1)

get_credit_card_data(values, fetch_ok) ==
    IF fetch_ok THEN card_list_from(values, 1) ELSE <<>>

\* str.strip() of blanks
RECURSIVE LStrip(_)
LStrip(s) == IF s # <<>> /\ Head(s) = " " THEN LStrip(Tail(s)) ELSE s

RECURSIVE RStrip(_)
RStrip(s) ==
    IF s # <<>> /\ s[Len(s)] = " " THEN RStrip(SubSeq(s, 1, Len(s) - 1)) ELSE s

Strip(s) == RStrip(LStrip(s))

\* str.replace(c, "")
RECURSIVE Remove(_, _)
Remove(s, c) ==
    IF s = <<>> THEN <<>>
    ELSE IF Head(s) = c THEN Remove(Tail(s), c)
         ELSE <<Head(s)>> \o Remove(Tail(s), c)

\* float(s) succeeds: digits with at most one point (of the characters of the
\* inputs, the only ones float accepts inside a number); otherwise ValueError
IsFloat(s) ==
    /\ \A i \in 1..Len(s) : IsDigit(s[i]) \/ s[i] = "."
    /\ \E i \in 1..Len(s) : IsDigit(s[i])
    /\ \A i, j \in 1..Len(s) : (s[i] = "." /\ s[j] = ".") => i = j

\* float(s) == 0
IsZero(s) == \A i \in 1..Len(s) : IsDigit(s[i]) => s[i] = "0"

\* card["amount"] after strip, replace and the default "0"
CardAmount(card) ==
    LET a == Remove(Strip(card.amount), ",")
    IN  IF a = <<>> THEN <<"0">> ELSE a

\* the day after, as "%d/%m"
Tomorrow(today) ==
    CASE today = "24/07" -> "25/07"
      [] today = "25/07" -> "26/07"
      [] today = "31/07" -> "01/08"

\* the text sent for a card due today or tomorrow
DueText(card, due) == [name |-> card.name, due |-> due]

\* one send_message per allowed id, in the order of the list
Messages(ids, text) == [k \in 1..Len(ids) |-> [chat_id |-> ids[k], text |-> text]]

\* card.get("status", "").lower() == "paid"
IsPaid(card) == Lower(card.status) = <<"p", "a", "i", "d">>

\* the loop over the cards from card i on; out: the messages sent and the
\* replies made so far.  float raises ValueError on an amount that is not a
\* number, and nothing in the function catches it
RECURSIVE cards_loop(_, _, _, _, _, _)
cards_loop(card_list, i, today, ids, update, out) ==
    IF i > Len(card_list) THEN out
    ELSE LET card == card_list[i]
             amount == CardAmount(card)
             due == IF card.due_date = today THEN "today" ELSE "tomorrow"
         IN  IF IsPaid(card)
             THEN cards_loop(card_list, i + 1, today, ids, update, out)
             ELSE IF card.due_date = None
             THEN cards_loop(card_list, i + 1, today, ids, update, out)
             ELSE IF ~IsFloat(amount)
             THEN [out EXCEPT !.raised = TRUE]
             ELSE IF IsZero(amount)
             THEN cards_loop(card_list, i + 1, today, ids, update, out)
             ELSE IF card.due_date \notin {today, Tomorrow(today)}
             THEN cards_loop(card_list, i + 1, today, ids, update, out)
             ELSE IF update
             THEN cards_loop(card_list, i + 1, today, ids, update,
                      [out EXCEPT !.replied = Append(@, DueText(card, due))])
             ELSE cards_loop(card_list, i + 1, today, ids, update,
                      [out EXCEPT !.sent = @ \o Messages(ids, DueText(card, due))])

\* values: the rows of the range; update: called with an update (the command
\* /reminders of a user) or with None (the scheduled job)
handle_credit_card_reminders(values, fetch_ok, today, ids, update) ==
    cards_loop(get_credit_card_data(values, fetch_ok), 1, today, ids, update,
               [raised |-> FALSE, sent |-> <<>>, replied |-> <<>>])

----------------------------------------------------------------------------
(* The token checks of the endpoints *)

\* every request passes
Authorized_always(my_header, token) == TRUE

\* my_header is request.headers.get(name), None without the header; the
\* request passes "if my_header != token: raise HTTPException(401)"
Authorized(my_header, token) == my_header = token

----------------------------------------------------------------------------
(* restricted, start, end_conv and button *)

\* a wrapper that calls the handler for every user
restricted_open(user_id, ids, Handled, Ignored) == Handled

\* wrapped(update, context): None for a user that is not allowed, otherwise
\* what the handler returns
restricted(user_id, ids, Handled, Ignored) ==
    IF \A k \in 1..Len(ids) : ids[k] # user_id THEN Ignored ELSE Handled

Letters ==
    {"a", "b", "c", "d", "e", "f", "g", "h", "i", "j", "k", "l", "m", "n", "o", "p",
     "q", "r", "s", "t", "u", "v", "w", "x", "y", "z",
     "A", "B", "C", "D", "E", "F", "G", "H", "I", "J", "K", "L", "M", "N", "O", "P",
     "Q", "R", "S", "T", "U", "V", "W", "X", "Y", "Z"}

\* [a-zA-Z0-9 ]
IsDescChar(c) == c \in Letters \/ IsDigit(c) \/ c = " "

\* \s, of the characters of the inputs
IsSpace(c) == c \in {" ", "\n"}

\* \d+(?:\.\d+)? matches the whole of t
IsNumber(t) ==
    /\ t # <<>>
    /\ \A i \in 1..Len(t) : IsDigit(t[i]) \/ t[i] = "."
    /\ \A i \in 1..Len(t) :
          t[i] = "." => /\ 1 < i /\ i < Len(t)
                        /\ \A j \in 1..Len(t) : t[j] = "." => j = i

\* (?:\d+(?:\.\d+)?\s*)+ matches the whole of s
RECURSIVE IsNumbers(_)
IsNumbers(s) ==
    \E k \in 1..Len(s) :
        /\ IsNumber(SubSeq(s, 1, k))
        /\ \E j \in k..Len(s) :
              /\ \A m \in (k + 1)..j : IsSpace(s[m])
              /\ j = Len(s) \/ IsNumbers(SubSeq(s, j + 1, Len(s)))

\* the lengths of group 1 with which the pattern
\* ^([a-zA-Z0-9 ]+?)\s+((?:\d+(?:\.\d+)?\s*)+)$ matches the text
PatternSplits(text) ==
    {i \in 1..Len(text) :
        /\ \A m \in 1..i : IsDescChar(text[m])
        /\ \E j \in (i + 1)..Len(text) :
              /\ \A m \in (i + 1)..j : IsSpace(text[m])
              /\ IsNumbers(SubSeq(text, j + 1, Len(text)))}

\* re.search(pattern, text): the lazy group 1 is the shortest that matches
pattern_search(text) ==
    LET splits == PatternSplits(text)
    IN  IF splits = {} THEN [match |-> FALSE, description |-> <<>>]
        ELSE [match |-> TRUE,
              description |->
                  SubSeq(text, 1, CHOOSE i \in splits : \A k \in splits : i <= k)]

\* [line.strip() for line in text.splitlines() if line.strip()]
RECURSIVE StrippedLines(_, _)
StrippedLines(pieces, i) ==
    IF i > Len(pieces) THEN <<>>
    ELSE IF Strip(pieces[i]) = <<>> THEN StrippedLines(pieces, i + 1)
         ELSE <<Strip(pieces[i])>> \o StrippedLines(pieces, i + 1)

Lines(text) == StrippedLines(SplitOn(text, "\n"), 1)

\* what update_google_sheet returns: the response of the API, or one of the
\* two error strings (http: the exception is an HttpError)
SheetResult(u, http) ==
    IF ~u.error THEN "response"
    ELSE IF http THEN "Google Sheets API Error: " ELSE "Error! "

\* every error string counts as an error
ContainsError_any(result) == result # "response"

\* result.__contains__("Error!")
ContainsError(result) == result = "Error! "

\* u: what update_google_sheet did and returned; acc holds the sheet, the
\* cache, and what the handler has counted and collected so far; the
\* description is confirmed unless the result contains "Error!"
logged(u, description, http, acc) ==
    [rows |-> u.rows, cache |-> u.d.cache,
     reads |-> acc.reads + Count(u.d.read),
     calls |-> Append(acc.calls, description),
     results |-> IF ContainsError(SheetResult(u, http)) THEN acc.results
                 ELSE Append(acc.results, description),
     errors |-> IF ContainsError(SheetResult(u, http))
                THEN Append(acc.errors, description)
                ELSE acc.errors]

\* one expense is logged
log_expense(description, fault, http, kw, store, acc) ==
    logged(update_google_sheet(description, fault, kw, acc.cache, store, acc.rows),
           description, http, acc)

\* the state after the answer of a conversation: END on an error, else 1
answered(out) == [state |-> IF out.errors # <<>> THEN END ELSE 1, out |-> out]

\* one line of a direct input
direct_line(line, fault, http, kw, store, acc) ==
    LET m == pattern_search(line)
    IN  IF m.match THEN log_expense(m.description, fault, http, kw, store, acc)
        ELSE [acc EXCEPT !.errors = Append(@, line)]

\* the loop over the lines of a direct input from line i on
RECURSIVE direct_loop(_, _, _, _, _, _, _)
direct_loop(lines, i, fault, http, kw, store, acc) ==
    IF i > Len(lines) THEN acc
    ELSE direct_loop(lines, i + 1, fault, http, kw, store,
                     direct_line(lines[i], fault, http, kw, store, acc))

\* end_conv itself: the state it returns, the calls of update_google_sheet it
\* made, the descriptions it confirmed and those it reported as errors
end_conv(text, flag, fault, http, kw, cache, store, rows) ==
    LET none == [rows |-> rows, cache |-> cache, reads |-> 0, calls |-> <<>>,
                 results |-> <<>>, errors |-> <<>>]
    IN  IF flag
        THEN LET m == pattern_search(text)
             IN  IF ~m.match
                 THEN [state |-> 0, out |-> [none EXCEPT !.errors = <<text>>]]
                 ELSE answered(log_expense(m.description, fault, http, kw, store,
                                           none))
        ELSE LET lines == Lines(text)
             IN  IF lines = <<>>
                 THEN [state |-> 0, out |-> [none EXCEPT !.errors = <<text>>]]
                 ELSE [state |-> END,
                       out |-> direct_loop(lines, 1, fault, http, kw, store, none)]

\* start that admits every chat
start_any_chat(chat_id, ids, flag) == [state |-> 0, flag |-> TRUE]

\* start: the state returned and the flag of the user afterwards
start(chat_id, ids, flag) ==
    IF \A k \in 1..Len(ids) : ids[k] # chat_id
    THEN [state |-> END, flag |-> flag]
    ELSE [state |-> 0, flag |-> TRUE]

\* button: the state returned and the flag
button(data, flag) ==
    IF data = "add_more" THEN [state |-> 0, flag |-> flag]
    ELSE IF data = "done" THEN [state |-> END, flag |-> FALSE]
    ELSE [state |-> NoState, flag |-> flag]

\* the handler that conv_handler picks for an update, given the state of the
\* conversation: entry points at END, the handlers of the state, then the
\* fallbacks; "none" when no handler of the application takes the update
Route(kind, state) ==
    CASE kind = "text" /\ state \in {END, 0} -> "end_conv"
      [] kind = "text" /\ state = 1 -> "none"
      [] kind = "/expense" /\ state = END -> "start"
      [] kind = "/expense" /\ state \in {0, 1} -> "handle_text"
      [] kind = "/cancel" /\ state = END -> "none"
      [] kind = "/cancel" /\ state \in {0, 1} -> "cancel"
      [] kind = "button" /\ state = 1 -> "button"
      [] kind = "button" /\ state \in {END, 0} -> "none"

----------------------------------------------------------------------------
(* Inputs *)

s_abcd  == <<"a", "b", "c", "d">>
s_Abcd  == <<"A", "b", "c", "d">>
s_ABCD  == <<"A", "B", "C", "D">>
s_abce  == <<"a", "b", "c", "e">>
s_Abce  == <<"A", "b", "c", "e">>
s_abcde == <<"a", "b", "c", "d", "e">>
s_ab_cd == <<"a", "b", " ", "c", "d">>
s_cd    == <<"c", "d">>
s_ee    == <<"e", "e">>

\* descriptions passed to detect_types
Descriptions == {s_abcd, s_ABCD, s_abce, s_ab_cd, s_cd, s_ee}

\* the cached description of the misspelling scenario, and the misspelling
s_starbucks_coffee ==
    <<"s", "t", "a", "r", "b", "u", "c", "k", "s", " ", "c", "o", "f", "f", "e", "e">>

s_starbucks_cofee ==
    <<"s", "t", "a", "r", "b", "u", "c", "k", "s", " ", "c", "o", "f", "e", "e">>

\* s with the character at i removed, replaced by c, or with c put before i
Without(s, i) == SubSeq(s, 1, i - 1) \o SubSeq(s, i + 1, Len(s))

Replaced(s, i, c) == [s EXCEPT ![i] = c]

Inserted(s, i, c) == SubSeq(s, 1, i - 1) \o <<c>> \o SubSeq(s, i, Len(s))

\* the descriptions at edit distance 1 from s that one wrong key "x" gives
Misspellings(s) ==
    {Without(s, i) : i \in 1..Len(s)}
    \cup {Replaced(s, i, "x") : i \in 1..Len(s)}
    \cup {Inserted(s, i, "x") : i \in 1..(Len(s) + 1)}

\* descriptions of the expenses that users log
LoggedDescriptions == {s_abcd, s_cd, s_ee}

FoodBeverages == <<"Food", "Beverages">>
TransportCab  == <<"Transport", "Cab">>

Record(d, t) == [desc |-> d, main_type |-> t[1], sub_type |-> t[2]]

Row(d, t, b) == [desc |-> d, main_type |-> t[1], sub_type |-> t[2], bot_identified |-> b]

\* records of the store file: with both types, with one type unset, without "desc"
StoreRecords ==
    {Record(d, t) : d \in {s_Abcd, s_abce, s_abcde}, t \in {FoodBeverages, TransportCab}}
    \cup {Record(s_abce, <<"Food", "">>), Record(s_Abcd, <<"", "Cab">>),
          Record(NoDesc, FoodBeverages)}

\* a smaller set of records, for the runs that vary the sheet
FewStoreRecords ==
    {Record(s_Abcd, FoodBeverages), Record(s_abcde, TransportCab),
     Record(s_abce, <<"Food", "">>)}

\* rows of the sheet: typed by a human (two of them with the same description
\* and different types), typed by the bot, or with a type unset
SheetRows ==
    {Row(s_abcd, TransportCab, "No"), Row(s_abcd, FoodBeverages, "No"),
     Row(s_abcd, TransportCab, "Yes"),
     Row(s_abce, TransportCab, "No"), Row(s_abce, <<"", "Cab">>, "No")}

SeqsUpTo(S, n) == UNION {[1..k -> S] : k \in 0..n}

\* the descriptions and the keyword lists given to match_keywords: letters in
\* both cases and blanks; keywords of one word, and one with a blank
Texts == SeqsUpTo({"a", "b", "B", " "}, MaxLen)

KeywordLists ==
    SeqsUpTo({<<"a">>, <<"a", "b">>, <<"B">>, <<"a", " ", "b">>}, MaxKeywords)

\* the store file: missing, not JSON, JSON that is not a list, or a list
StoreFiles(records) ==
    {[status |-> st, records |-> <<>>] : st \in {"missing", "unparseable", "notlist"}}
    \cup {[status |-> "list", records |-> r] : r \in SeqsUpTo(records, MaxStore)}

\* keywords.json: missing, not JSON, JSON that is not a mapping, or a mapping
KeywordFiles ==
    {[status |-> st, food |-> <<>>, groceries |-> <<>>] :
        st \in {"missing", "unparseable", "notmapping"}}
    \cup {[status |-> "mapping", food |-> <<s_Abcd>>, groceries |-> <<s_cd, s_abcd>>],
          [status |-> "mapping", food |-> <<>>, groceries |-> <<s_abce>>]}

\* date_range values of the reminders file: ranges, a range that holds no
\* day, no separator, a piece that is not a number, three pieces
d_1_2   == <<"1", "-", "2">>
d_2_12  == <<"2", "-", "1", "2">>
d_3_1   == <<"3", "-", "1">>
d_2     == <<"2">>
d_x_2   == <<"x", "-", "2">>
d_1_2_3 == <<"1", "-", "2", "-", "3">>

DateRanges == {d_1_2, d_2_12, d_3_1, d_2, d_x_2, d_1_2_3}

\* int(ist_date().strftime("%d"))
Days == {1, 2, 3, 12}

TransportBus == <<"Transport", "Bus">>

Reminder(d, r, t) ==
    [desc |-> d, date_range |-> r, main_type |-> t[1], sub_type |-> t[2]]

\* entries of the reminders file with every kind of date_range
ReminderEntries ==
    {Reminder(d, r, TransportCab) : d \in {"rent", "sip"}, r \in DateRanges}

\* entries with a date_range that parses, of three types
DatedReminders ==
    {Reminder("cab", r, TransportCab) : r \in {d_1_2, d_2_12}}
    \cup {Reminder("bus", r, TransportBus) : r \in {d_1_2, d_2_12}}
    \cup {Reminder("tea", r, FoodBeverages) : r \in {d_1_2, d_2_12}}

\* the reminders file: missing, not JSON, or a list of entries
ReminderFiles(entries) ==
    {[status |-> st, reminders |-> <<>>] : st \in {"missing", "unparseable"}}
    \cup {[status |-> "list", reminders |-> r] : r \in SeqsUpTo(entries, MaxReminders)}

\* rows of the sheet seen by active_reminders: two typed, one without sub_type
ExpenseRows ==
    {Row(s_abcd, TransportCab, "No"), Row(s_abcd, FoodBeverages, "Yes"),
     Row(s_abce, <<"Transport", "">>, "No")}

\* cells of the credit card range: amounts and statuses as typed in the sheet
a_7     == <<"7">>
a_5c0   == <<" ", "5", ",", "0">>
a_0p0   == <<"0", ".", "0">>
a_blank == <<" ">>
a_NA    == <<"N", "A">>

st_unpaid == <<"u", "n", "p", "a", "i", "d">>
st_Paid   == <<"P", "a", "i", "d">>
st_PAID   == <<"P", "A", "I", "D">>

\* rows of the range T8:W13 (due date, name, amount, status): due today or
\* tomorrow, paid, zero or empty amount, no due date, another day, an amount
\* that is not a number, and a row whose status cell is missing
CardRows ==
    {<<"24/07", "visa", a_5c0, st_unpaid>>,
     <<"25/07", "amex", a_7, st_unpaid>>,
     <<"24/07", "visa", a_7, st_Paid>>,
     <<"25/07", "amex", a_7, st_PAID>>,
     <<"24/07", "visa", a_0p0, st_unpaid>>,
     <<"24/07", "visa", a_blank, st_unpaid>>,
     <<"", "visa", a_7, st_unpaid>>,
     <<"31/07", "visa", a_7, st_unpaid>>,
     <<"24/07", "rupay", a_NA, st_unpaid>>,
     <<"24/07", "visa", a_7>>}

\* ist_date().strftime("%d/%m")
Dates == {"24/07", "25/07", "31/07"}

\* config.ids_allowed_to_chat_with_bot: one user, or two
AllowedLists == {<<1>>, <<1, 3>>}

\* the values of a secret-token header: the two tokens, another value, and
\* None for a request without the header
Headers == {"sched", "secret", "wrong", None}

\* the chats of the users: the private chat of a user has the user's id;
\* user 1 writes in the group 9 too
Members == {<<1, 1>>, <<2, 2>>, <<9, 1>>}

\* texts of messages: an expense, no amount, two expenses on two lines, an
\* expense and a line that is none, several amounts, a blank, and an expense
\* broken over two lines
t_ab_5    == <<"a", "b", " ", "5">>
t_ab      == <<"a", "b">>
t_two     == <<"a", "b", " ", "5", "\n", "a", "b", " ", "7">>
t_mixed   == <<"a", "b", " ", "5", "\n", "!">>
t_amounts == <<"a", "b", " ", "5", " ", "2", ".", "5">>
t_blank   == <<" ">>
t_broken  == <<"a", "b", "\n", "5">>

MessageTexts == {t_ab_5, t_ab, t_two, t_mixed, t_amounts, t_blank, t_broken}

\* callback data of the buttons, and one that the keyboard does not hold
ButtonData == {"add_more", "done", "other"}

\* the updates that Telegram posts: a command, a text, a pressed button
Updates ==
    {[kind |-> k, chat |-> m[1], user |-> m[2], text |-> <<>>, data |-> ""] :
        k \in {"/expense", "/cancel"}, m \in Members}
    \cup {[kind |-> "text", chat |-> m[1], user |-> m[2], text |-> t, data |-> ""] :
            m \in Members, t \in MessageTexts}
    \cup {[kind |-> "button", chat |-> m[1], user |-> m[2], text |-> <<>>, data |-> d] :
            m \in Members, d \in ButtonData}

\* the day of a scheduled job: day of the month and "%d/%m"
Instants == {[day |-> 24, date |-> "24/07"], [day |-> 25, date |-> "25/07"]}

d_2_24 == <<"2", "-", "2", "4">>

----------------------------------------------------------------------------
(* The state machine *)

NoOp == [op |-> "start", desc |-> <<>>, result |-> NoTypes, stage |-> "none",
         read |-> FALSE, raised |-> FALSE, status |-> "none", message |-> "",
         fault |-> "none", again |-> FALSE, appended |-> <<>>,
         keywords |-> <<>>, matched |-> FALSE,
         prior |-> [status |-> "missing", records |-> <<>>],
         today |-> 0, applicable |-> <<>>, reminders |-> <<>>,
         update |-> FALSE, sent |-> <<>>, replied |-> <<>>, date |-> "",
         header |-> "", code |-> 0, ran |-> <<>>,
         kind |-> "", chat |-> 0, user |-> 0, text |-> <<>>, data |-> "",
         http |-> FALSE, handler |-> "none", state |-> NoState, before |-> NoState,
         flag |-> FALSE, calls |-> <<>>, results |-> <<>>, errors |-> <<>>]

\* users and chats of Telegram: user 1 is allowed, user 2 is not; a private
\* chat has the id of its user, chat 9 is a group
Users == {1, 2}
Chats == {1, 2, 9}

\* no reminders file, no card, one allowed user, no conversation under way
Quiet ==
    /\ reminders_json = [status |-> "missing", reminders |-> <<>>]
    /\ cards = <<>>
    /\ config = [scheduler_token |-> "sched", secret_token |-> "secret",
                 ids_allowed_to_chat_with_bot |-> <<1>>]
    /\ conv = [c \in Chats |-> [u \in Users |-> END]]
    /\ show_markup = [u \in Users |-> FALSE]

\* the process has started and has served no call yet
Started ==
    /\ _data_cache = <<>>
    /\ loads = 0
    /\ last = NoOp

\* every keyword file and store file, over a sheet of one human-typed row
Init ==
    /\ Quiet
    /\ keywords_json \in KeywordFiles
    /\ types_json \in StoreFiles(StoreRecords)
    /\ sheet = <<Row(s_abcd, TransportCab, "No")>>
    /\ Started

\* every sheet, over one keyword file and a store of few records
InitReconcile ==
    /\ Quiet
    /\ keywords_json \in {k \in KeywordFiles : k.status = "mapping" /\ k.food = <<>>}
    /\ types_json \in StoreFiles(FewStoreRecords)
    /\ sheet \in SeqsUpTo(SheetRows, MaxRows)
    /\ Started

\* every sheet, over a store that is missing or an empty list
InitEmptyStore ==
    /\ Quiet
    /\ keywords_json \in {k \in KeywordFiles : k.status = "mapping" /\ k.food = <<>>}
    /\ types_json \in {s \in StoreFiles({}) : s.status \in {"missing", "list"}}
    /\ sheet \in SeqsUpTo(SheetRows, MaxRows)
    /\ Started

\* every keyword file, over a store of at most one kind of record
InitKeywordFile ==
    /\ Quiet
    /\ keywords_json \in KeywordFiles
    /\ types_json \in StoreFiles({Record(s_abcde, TransportCab)})
    /\ sheet = <<>>
    /\ Started

\* a store of one record, and a keyword file that is missing or holds a
\* keyword that the misspellings do not contain as a word
InitMisspelt ==
    /\ Quiet
    /\ keywords_json \in
          {[status |-> "missing", food |-> <<>>, groceries |-> <<>>],
           [status |-> "mapping", food |-> <<s_abcd>>, groceries |-> <<s_cd>>]}
    /\ types_json = [status |-> "list",
                     records |-> <<Record(s_starbucks_coffee, FoodBeverages)>>]
    /\ sheet = <<>>
    /\ Started

\* no file and no sheet; a description and a keyword list wait in last for
\* the call of match_keywords
InitKeywords ==
    /\ Quiet
    /\ keywords_json = [status |-> "missing", food |-> <<>>, groceries |-> <<>>]
    /\ types_json = [status |-> "missing", records |-> <<>>]
    /\ sheet = <<>>
    /\ _data_cache = <<>>
    /\ loads = 0
    /\ \E description \in Texts, keywords \in KeywordLists :
          last = [NoOp EXCEPT !.desc = description, !.keywords = keywords]

\* an empty sheet, over no keyword file or one with both rules, and a store of
\* few records
InitLogging ==
    /\ Quiet
    /\ keywords_json \in {k \in KeywordFiles : k.status = "missing" \/ k.food # <<>>}
    /\ types_json \in StoreFiles({r \in FewStoreRecords : r.sub_type # ""})
    /\ sheet = <<>>
    /\ Started

\* the records that the run of refresh_types_data just before this operation
\* appended to the store, when that run returned status "success"
JustAppended ==
    IF last.op = "refresh_types_data" /\ last.status = "success"
    THEN SubSeq(types_json.records,
                (IF last.prior.status = "list" THEN Len(last.prior.records) ELSE 0) + 1,
                Len(types_json.records))
    ELSE <<>>

\* a caller classifies a description (r: what the call returns and leaves)
DetectTypes(desc) ==
    \E r \in {detect_types(desc, keywords_json, _data_cache, types_json)} :
        /\ loads + Count(r.read) <= MaxLoads
        /\ _data_cache' = r.cache
        /\ loads' = loads + Count(r.read)
        /\ last' = [NoOp EXCEPT !.op = "detect_types", !.desc = desc,
                                !.result = r.result, !.stage = r.stage,
                                !.read = r.read, !.raised = r.raised,
                                !.appended = JustAppended]
        /\ UNCHANGED <<keywords_json, types_json, sheet>>
        /\ UNCHANGED others

\* a direct call of get_types_data
GetTypesData ==
    \E g \in {get_types_data(_data_cache, types_json)} :
        /\ loads + Count(g.read) <= MaxLoads
        /\ _data_cache' = g.cache
        /\ loads' = loads + Count(g.read)
        /\ last' = [NoOp EXCEPT !.op = "get_types_data",
                                !.read = g.read, !.raised = g.raised]
        /\ UNCHANGED <<keywords_json, types_json, sheet>>
        /\ UNCHANGED others

\* the operation before this one was a run of refresh_types_data that fetched
\* the rows of the sheet and was not stopped at the opening of the store for
\* writing
RanBefore == last.op = "refresh_types_data" /\ last.fault \notin {"fetch", "write"}

\* the reconciliation job runs; the fetch, the write and the messages may fail
RefreshTypesData(fault) ==
    \E r \in {refresh_types_data(get_expense_data(sheet, fault # "fetch"), fault,
                                   _data_cache, types_json)} :
        /\ Len(r.store.records) <= MaxStore
        /\ _data_cache' = r.cache
        /\ types_json' = r.store
        /\ last' = [NoOp EXCEPT !.op = "refresh_types_data", !.status = r.status,
                                !.message = r.message, !.raised = r.raised,
                                !.fault = fault, !.prior = types_json,
                                !.again = RanBefore]
        /\ UNCHANGED <<keywords_json, sheet, loads>>
        /\ UNCHANGED others

\* the process restarts: the module is loaded again, _data_cache = {}
Restart ==
    /\ _data_cache' = <<>>
    /\ loads' = 0
    /\ last' = [NoOp EXCEPT !.op = "restart"]
    /\ UNCHANGED <<keywords_json, types_json, sheet>>
    /\ UNCHANGED others

Next ==
    \/ \E desc \in Descriptions : DetectTypes(desc)
    \/ GetTypesData
    \/ \E fault \in Faults : RefreshTypesData(fault)
    \/ Restart

\* a user logs an expense: the description is classified and the row is
\* appended to the sheet
UpdateGoogleSheet(description, fault) ==
    \E u \in {update_google_sheet(description, fault, keywords_json,
                                  _data_cache, types_json, sheet)} :
        /\ loads + Count(u.d.read) <= MaxLoads
        /\ Len(u.rows) <= MaxRows
        /\ _data_cache' = u.d.cache
        /\ loads' = loads + Count(u.d.read)
        /\ sheet' = u.rows
        /\ last' = [NoOp EXCEPT !.op = "update_google_sheet", !.desc = description,
                                !.result = u.d.result, !.stage = u.d.stage,
                                !.read = u.d.read, !.raised = u.d.raised,
                                !.fault = fault,
                                !.status = IF u.error THEN "error" ELSE "success"]
        /\ UNCHANGED <<keywords_json, types_json>>
        /\ UNCHANGED others

\* the operations above together with the logging of expenses
NextLogging ==
    \/ Next
    \/ \E description \in LoggedDescriptions, fault \in SheetFaults :
          UpdateGoogleSheet(description, fault)

\* a direct call of match_keywords on the inputs that wait in last
MatchKeywords ==
    /\ last.op = "start"
    /\ last' = [last EXCEPT !.op = "match_keywords",
                            !.matched = match_keywords(last.desc, last.keywords)]
    /\ UNCHANGED <<keywords_json, types_json, sheet, _data_cache, loads>>
    /\ UNCHANGED others

NextKeywords == MatchKeywords

Spec == Init /\ [][Next]_vars

SpecReconcile == InitReconcile /\ [][Next]_vars

\* reconciliations and lookups that start from a missing or empty store
SpecEmptyStore == InitEmptyStore /\ [][Next]_vars

\* the file keywords.json is replaced, removed or damaged while the process
\* runs (no operation of the bot: last stays as it is)
KeywordsChange ==
    /\ keywords_json' \in KeywordFiles \ {keywords_json}
    /\ UNCHANGED <<types_json, sheet, _data_cache, loads, last>>
    /\ UNCHANGED others

NextKeywordFile ==
    \/ \E desc \in Descriptions : DetectTypes(desc)
    \/ KeywordsChange
    \/ Restart

\* calls of detect_types while keywords.json changes under the process
SpecKeywordFile == InitKeywordFile /\ [][NextKeywordFile]_vars

NextMisspelt ==
    \/ \E desc \in Misspellings(s_starbucks_coffee) : DetectTypes(desc)
    \/ GetTypesData
    \/ Restart

\* calls of detect_types on misspellings of the one cached description
SpecMisspelt == InitMisspelt /\ [][NextMisspelt]_vars

\* match_keywords alone, over every description and keyword list
SpecKeywords == InitKeywords /\ [][NextKeywords]_vars

\* the bot logs every row of the sheet: no row is typed or edited by a human
SpecLogging == InitLogging /\ [][NextLogging]_vars

----------------------------------------------------------------------------
(* The reminders *)

\* the engine's files and cache as a reminder job finds them
EngineIdle ==
    /\ keywords_json = [status |-> "missing", food |-> <<>>, groceries |-> <<>>]
    /\ types_json = [status |-> "missing", records |-> <<>>]
    /\ _data_cache = <<>>
    /\ loads = 0
    /\ last = NoOp

InitApplicable ==
    /\ EngineIdle
    /\ sheet = <<>>
    /\ reminders_json \in ReminderFiles(ReminderEntries)
    /\ cards = <<>>
    /\ config = [scheduler_token |-> "sched", secret_token |-> "secret",
                 ids_allowed_to_chat_with_bot |-> <<1>>]
    /\ conv = [c \in Chats |-> [u \in Users |-> END]]
    /\ show_markup = [u \in Users |-> FALSE]

InitReminders ==
    /\ EngineIdle
    /\ sheet \in SeqsUpTo(ExpenseRows, MaxRows)
    /\ reminders_json \in ReminderFiles(DatedReminders)
    /\ cards = <<>>
    /\ config = [scheduler_token |-> "sched", secret_token |-> "secret",
                 ids_allowed_to_chat_with_bot |-> <<1>>]
    /\ conv = [c \in Chats |-> [u \in Users |-> END]]
    /\ show_markup = [u \in Users |-> FALSE]

ApplicableReminders(today) ==
    /\ last' = [NoOp EXCEPT !.op = "applicable_reminders",
                            !.today = today,
                            !.applicable = applicable_reminders(reminders_json, today)]
    /\ UNCHANGED <<keywords_json, types_json, sheet, _data_cache, loads>>
    /\ UNCHANGED others

ActiveReminders(today, fetch_ok) ==
    \E r \in {active_reminders(reminders_json, today, sheet, fetch_ok)} :
        /\ last' = [NoOp EXCEPT !.op = "active_reminders",
                                !.today = today,
                                !.fault = IF fetch_ok THEN "none" ELSE "fetch",
                                !.raised = r.raised,
                                !.applicable = r.applicable,
                                !.reminders = r.reminders]
        /\ UNCHANGED <<keywords_json, types_json, sheet, _data_cache, loads>>
        /\ UNCHANGED others

NextApplicable == \E today \in Days : ApplicableReminders(today)

\* applicable_reminders alone, over every reminders file
SpecApplicable == InitApplicable /\ [][NextApplicable]_vars

NextReminders == \E today \in Days, fetch_ok \in BOOLEAN : ActiveReminders(today, fetch_ok)

\* active_reminders over reminders files that parse and sheets of expenses
SpecReminders == InitReminders /\ [][NextReminders]_vars

----------------------------------------------------------------------------
(* The credit card reminders *)

InitCards ==
    /\ EngineIdle
    /\ sheet = <<>>
    /\ reminders_json = [status |-> "missing", reminders |-> <<>>]
    /\ cards \in SeqsUpTo(CardRows, MaxCards)
    /\ config \in {[scheduler_token |-> "sched", secret_token |-> "secret",
                    ids_allowed_to_chat_with_bot |-> ids] : ids \in AllowedLists}
    /\ conv = [c \in Chats |-> [u \in Users |-> END]]
    /\ show_markup = [u \in Users |-> FALSE]

HandleCreditCardReminders(today, fetch_ok, update) ==
    \E r \in {handle_credit_card_reminders(cards, fetch_ok, today,
                  config.ids_allowed_to_chat_with_bot, update)} :
        /\ last' = [NoOp EXCEPT !.op = "handle_credit_card_reminders",
                                !.date = today,
                                !.update = update,
                                !.fault = IF fetch_ok THEN "none" ELSE "fetch",
                                !.raised = r.raised,
                                !.sent = r.sent,
                                !.replied = r.replied]
        /\ UNCHANGED <<keywords_json, types_json, sheet, _data_cache, loads>>
        /\ UNCHANGED others

NextCards ==
    \E today \in Dates, fetch_ok \in BOOLEAN, update \in BOOLEAN :
        HandleCreditCardReminders(today, fetch_ok, update)

\* handle_credit_card_reminders over the rows of the credit card range
SpecCards == InitCards /\ [][NextCards]_vars

----------------------------------------------------------------------------
(* The endpoints and the conversation *)

\* the bot is deployed: "ab" is a food keyword, the store holds one record,
\* there is a reminder for the days 2 to 24 and at most one card, one user
\* is allowed and no conversation is under way
InitBot ==
    /\ keywords_json = [status |-> "mapping", food |-> <<t_ab>>, groceries |-> <<>>]
    /\ types_json = [status |-> "list", records |-> <<Record(s_abcde, TransportCab)>>]
    /\ _data_cache = <<>>
    /\ loads = 0
    /\ last = NoOp
    /\ sheet = <<>>
    /\ reminders_json \in {[status |-> "missing", reminders |-> <<>>],
                           [status |-> "list",
                            reminders |-> <<Reminder("cab", d_2_24, TransportCab)>>]}
    /\ cards \in {<<>>, <<<<"24/07", "visa", a_7, st_unpaid>>>>}
    /\ config = [scheduler_token |-> "sched", secret_token |-> "secret",
                 ids_allowed_to_chat_with_bot |-> <<1>>]
    /\ conv = [c \in Chats |-> [u \in Users |-> END]]
    /\ show_markup = [u \in Users |-> FALSE]

\* GET /types_refresh
RefreshTypesDataApi(my_header, fault) ==
    IF ~Authorized(my_header, config.scheduler_token)
    THEN /\ last' = [NoOp EXCEPT !.op = "/types_refresh", !.header = my_header,
                                 !.code = 401]
         /\ UNCHANGED <<keywords_json, types_json, sheet, _data_cache, loads>>
         /\ UNCHANGED others
    ELSE \E r \in {refresh_types_data(get_expense_data(sheet, fault # "fetch"), fault,
                                      _data_cache, types_json)} :
             /\ Len(r.store.records) <= MaxStore
             /\ _data_cache' = r.cache
             /\ types_json' = r.store
             /\ last' = [NoOp EXCEPT !.op = "/types_refresh", !.header = my_header,
                                     !.code = 200, !.ran = <<"refresh_types_data">>,
                                     !.status = r.status, !.message = r.message,
                                     !.fault = fault, !.prior = types_json]
             /\ UNCHANGED <<keywords_json, sheet, loads>>
             /\ UNCHANGED others

\* the message with the open reminders, one per allowed user
ReminderMessages(ids, open_reminders) ==
    IF open_reminders = <<>> THEN <<>>
    ELSE Messages(ids, [name |-> "reminders", due |-> "today"])

\* GET /reminders: the open reminders, then the credit card reminders; an
\* exception of either leaves the endpoint (500) with what was sent before it
ProcessRemindersJob(my_header, now, fetch_ok) ==
    /\ UNCHANGED <<keywords_json, types_json, sheet, _data_cache, loads>>
    /\ UNCHANGED others
    /\ IF ~Authorized(my_header, config.scheduler_token)
       THEN last' = [NoOp EXCEPT !.op = "/reminders", !.header = my_header,
                                 !.code = 401]
       ELSE LET ids == config.ids_allowed_to_chat_with_bot
                a == active_reminders(reminders_json, now.day, sheet, fetch_ok)
                c == handle_credit_card_reminders(cards, fetch_ok, now.date, ids, FALSE)
            IN  IF a.raised
                THEN last' = [NoOp EXCEPT !.op = "/reminders", !.header = my_header,
                                          !.code = 500, !.raised = TRUE,
                                          !.ran = <<"active_reminders">>,
                                          !.fault = "fetch"]
                ELSE last' = [NoOp EXCEPT
                                 !.op = "/reminders", !.header = my_header,
                                 !.code = IF c.raised THEN 500 ELSE 200,
                                 !.raised = c.raised,
                                 !.ran = <<"active_reminders",
                                           "handle_credit_card_reminders">>,
                                 !.fault = IF fetch_ok THEN "none" ELSE "fetch",
                                 !.reminders = a.reminders,
                                 !.sent = ReminderMessages(ids, a.reminders) \o c.sent]

\* what a handler leaves: the state it returns, the flag of the user, and
\* the sheet, the cache and the counts of end_conv
Outcome(state, flag) ==
    [state |-> state, flag |-> flag,
     out |-> [rows |-> sheet, cache |-> _data_cache, reads |-> 0, calls |-> <<>>,
              results |-> <<>>, errors |-> <<>>]]

\* what end_conv leaves: its state and counts, the flag as it was
Handled(e, flag) == [state |-> e.state, flag |-> flag, out |-> e.out]

\* bot_builder.process_update(update): the handler that conv_handler picks
\* runs, and the state it returns becomes the state of the conversation of
\* this chat and user (None keeps the state)
Dispatch(upd, fault, http) ==
    LET ids == config.ids_allowed_to_chat_with_bot
        flag == show_markup[upd.user]
        handler == Route(upd.kind, conv[upd.chat][upd.user])
    IN  CASE handler = "start" ->
                 LET s == start(upd.chat, ids, flag) IN Outcome(s.state, s.flag)
          [] handler = "end_conv" ->
                 restricted(upd.user, ids,
                            Handled(end_conv(upd.text, flag, fault, http, keywords_json,
                                             _data_cache, types_json, sheet), flag),
                            Outcome(NoState, flag))
          [] handler = "button" ->
                 LET b == button(upd.data, flag) IN Outcome(b.state, b.flag)
          [] handler \in {"cancel", "handle_text"} -> Outcome(END, flag)
          [] handler = "none" -> Outcome(NoState, flag)

\* POST /bot
ProcessUpdate(my_header, upd, fault, http) ==
    IF ~Authorized(my_header, config.secret_token)
    THEN /\ last' = [NoOp EXCEPT !.op = "/bot", !.header = my_header, !.code = 401]
         /\ UNCHANGED <<keywords_json, types_json, sheet, _data_cache, loads>>
         /\ UNCHANGED others
    ELSE \E d \in {Dispatch(upd, fault, http)} :
             /\ Len(d.out.rows) <= MaxRows
             /\ loads + d.out.reads <= MaxLoads
             /\ sheet' = d.out.rows
             /\ _data_cache' = d.out.cache
             /\ loads' = loads + d.out.reads
             /\ conv' = IF d.state = NoState THEN conv
                        ELSE [conv EXCEPT ![upd.chat][upd.user] = d.state]
             /\ show_markup' = [show_markup EXCEPT ![upd.user] = d.flag]
             /\ last' = [NoOp EXCEPT
                            !.op = "/bot", !.header = my_header, !.code = 200,
                            !.kind = upd.kind, !.chat = upd.chat, !.user = upd.user,
                            !.text = upd.text, !.data = upd.data,
                            !.fault = fault, !.http = http,
                            !.before = conv[upd.chat][upd.user],
                            !.flag = show_markup[upd.user],
                            !.handler =
                                IF Route(upd.kind, conv[upd.chat][upd.user]) = "end_conv"
                                THEN restricted(upd.user,
                                         config.ids_allowed_to_chat_with_bot,
                                         "end_conv", "none")
                                ELSE Route(upd.kind, conv[upd.chat][upd.user]),
                            !.state = d.state,
                            !.calls = d.out.calls, !.results = d.out.results,
                            !.errors = d.out.errors]
             /\ UNCHANGED <<keywords_json, types_json, reminders_json, cards, config>>

\* the updates of the runs that exercise the token checks
FewUpdates == {upd \in Updates : upd.chat = 1 /\ upd.text \in {<<>>, t_ab_5}}

NextBot ==
    \/ \E my_header \in Headers, fault \in Faults : RefreshTypesDataApi(my_header, fault)
    \/ \E my_header \in Headers, now \in Instants, fetch_ok \in BOOLEAN :
          ProcessRemindersJob(my_header, now, fetch_ok)
    \/ \E my_header \in Headers, upd \in FewUpdates :
          ProcessUpdate(my_header, upd, "none", FALSE)

\* the three endpoints, called with every value of the token header
SpecBot == InitBot /\ [][NextBot]_vars

\* the same deployment, with the environment variable scheduler_token set or
\* not set (os.environ.get gives None)
InitAnyToken ==
    /\ keywords_json = [status |-> "mapping", food |-> <<t_ab>>, groceries |-> <<>>]
    /\ types_json = [status |-> "list", records |-> <<Record(s_abcde, TransportCab)>>]
    /\ _data_cache = <<>>
    /\ loads = 0
    /\ last = NoOp
    /\ sheet = <<>>
    /\ reminders_json = [status |-> "list",
                         reminders |-> <<Reminder("cab", d_2_24, TransportCab)>>]
    /\ cards = <<<<"24/07", "visa", a_7, st_unpaid>>>>
    /\ config \in {[scheduler_token |-> t, secret_token |-> "secret",
                     ids_allowed_to_chat_with_bot |-> <<1>>] : t \in {"sched", None}}
    /\ conv = [c \in Chats |-> [u \in Users |-> END]]
    /\ show_markup = [u \in Users |-> FALSE]

\* the three endpoints, whether the scheduler token is configured or not
SpecAnyToken == InitAnyToken /\ [][NextBot]_vars

\* updates that Telegram posts with the secret token; the append to the sheet
\* may fail with an HttpError or with another exception
NextConversation ==
    \E upd \in Updates, fault \in {"none", "append"}, http \in BOOLEAN :
        /\ http => fault = "append"
        /\ fault # "none" => upd.kind = "text"
        /\ ProcessUpdate(config.secret_token, upd, fault, http)

\* the scheduled jobs have nothing to send
InitConversation ==
    /\ InitBot
    /\ reminders_json.status = "missing"
    /\ cards = <<>>

\* the conversation behind POST /bot
SpecConversation == InitConversation /\ [][NextConversation]_vars

----------------------------------------------------------------------------
(* Properties of detect_types *)

FoodRule      == <<"Food", "Outside Food/Dining/Snacks">>
GroceriesRule == <<"Household", "Groceries">>

\* the whitespace-delimited words of the lowercased description
WordsOf(desc) == SeqToSet(Split(Lower(desc)))

\* the lowercased keywords of a list
KeywordSet(keywords) == {Lower(k) : k \in SeqToSet(keywords)}

SharesWord(desc, keywords) == WordsOf(desc) \cap KeywordSet(keywords) # {}

\* the keyword stage hands over to the cache stage: the file is missing or is
\* not JSON, or it is a mapping and neither rule shares a word with desc
KeywordFallsThrough(desc, kw) ==
    \/ kw.status \in {"missing", "unparseable"}
    \/ /\ kw.status = "mapping"
       /\ ~SharesWord(desc, kw.food)
       /\ ~SharesWord(desc, kw.groceries)

\* the entry of the cache with this key differs in category from the pair
HoldsOtherCategory(cache, key, pair) ==
    \E i \in 1..Len(cache) : cache[i].key = key /\ TypesOf(cache[i].item) # pair

\* C1: with keywords.json a mapping, a description that shares a word with the
\* food set is classified Food/Outside Food, one that shares a word with the
\* groceries set only is classified Household/Groceries, and that call neither
\* reads the store nor changes the cache, whatever the cache holds.
C1_KeywordRuleBypassesCache ==
    [][ (/\ last'.op = "detect_types"
         /\ keywords_json.status = "mapping"
         /\ \/ SharesWord(last'.desc, keywords_json.food)
            \/ SharesWord(last'.desc, keywords_json.groceries))
        => /\ last'.result = IF SharesWord(last'.desc, keywords_json.food)
                             THEN FoodRule ELSE GroceriesRule
           /\ ~last'.read
           /\ ~last'.raised
           /\ loads' = loads
           /\ _data_cache' = _data_cache ]_vars

\* C1 witness: a rule classified a description whose lowercase form is a key of
\* the cache with another category
C1_Witness ==
    /\ last.op = "detect_types"
    /\ keywords_json.status = "mapping"
    /\ SharesWord(last.desc, keywords_json.food) \/ SharesWord(last.desc, keywords_json.groceries)
    /\ last.result \in {FoodRule, GroceriesRule}
    /\ HoldsOtherCategory(_data_cache, Lower(last.desc), last.result)

\* C2 as stated: a description whose lowercase form is a key of the cache is
\* always classified with that entry's (main_type, sub_type).  (Stated for the
\* calls that find keywords.json a well-formed mapping.)
C2_ExactKeyAlwaysWins ==
    (/\ last.op = "detect_types"
     /\ keywords_json.status = "mapping"
     /\ Lower(last.desc) \in CacheKeys(_data_cache))
    => last.result = TypesOf(CacheGet(_data_cache, Lower(last.desc)))

\* C2 amended: a description whose lowercase form is a key of the cache is
\* classified with that entry's (main_type, sub_type) whenever the keyword
\* stage hands over to the cache stage.
C2_ExactKeyWinsAfterKeywords ==
    (/\ last.op = "detect_types"
     /\ KeywordFallsThrough(last.desc, keywords_json)
     /\ Lower(last.desc) \in CacheKeys(_data_cache))
    => /\ last.result = TypesOf(CacheGet(_data_cache, Lower(last.desc)))
       /\ Cardinality({i \in 1..Len(_data_cache) : _data_cache[i].key = Lower(last.desc)}) = 1

\* C2 witness: an exact match on a description that is not lowercase, behind
\* an entry that the fuzzy loop would have taken
C2_Witness ==
    /\ last.op = "detect_types"
    /\ KeywordFallsThrough(last.desc, keywords_json)
    /\ Lower(last.desc) # last.desc
    /\ Lower(last.desc) \in CacheKeys(_data_cache)
    /\ last.result = TypesOf(CacheGet(_data_cache, Lower(last.desc)))
    /\ \E i \in 1..Len(_data_cache) :
          /\ _data_cache[i].key # Lower(last.desc)
          /\ ratio(_data_cache[i].key, Lower(last.desc)) > FUZZY_MATCH_THRESHOLD
          /\ TypesOf(_data_cache[i].item) # last.result

\* the strings a type can be
TypeStrings == {"", "Food", "Beverages", "Transport", "Cab", "Household", "Groceries",
                "Outside Food/Dining/Snacks"}

\* C3: detect_types never raises: it returns a pair of strings for every
\* description, keyword file and store file, and an exception that leaves the
\* pipeline becomes ("", "").
C3_DetectTypesNeverRaises ==
    last.op = "detect_types"
    => /\ ~last.raised
       /\ last.result \in TypeStrings \X TypeStrings
       /\ last.stage = "error" => last.result = NoTypes

\* C3 witness: an exception left the pipeline and the call returned ("", "")
C3_Witness ==
    /\ last.op = "detect_types"
    /\ last.stage = "error"
    /\ keywords_json.status = "notmapping"
    /\ last.result = NoTypes
    /\ ~last.raised

\* no rule of the keyword file shares a word with the description (also when
\* the file gives no rules at all)
NoRuleMatches(desc, kw) ==
    kw.status = "mapping" => ~SharesWord(desc, kw.food) /\ ~SharesWord(desc, kw.groceries)

\* the store gives the cache no entry: missing, not a list of records, or a
\* list in which no record has both types
StoreGivesNothing(store) ==
    \/ store.status # "list"
    \/ \A i \in 1..Len(store.records) :
          store.records[i].main_type = "" \/ store.records[i].sub_type = ""

\* C4: when the store gives the cache no entry and no keyword rule matches,
\* detect_types returns ("", "") and the cache is empty after the call.
C4_EmptyCacheNoKeyword ==
    (/\ last.op = "detect_types"
     /\ NoRuleMatches(last.desc, keywords_json)
     /\ StoreGivesNothing(types_json))
    => last.result = NoTypes /\ _data_cache = <<>>

\* C4 witness: the keyword file is missing, the store was read and holds only
\* records that are discarded, and the call returned ("", "")
C4_Witness ==
    /\ last.op = "detect_types"
    /\ keywords_json.status = "missing"
    /\ last.read
    /\ types_json.status = "list" /\ types_json.records # <<>>
    /\ StoreGivesNothing(types_json)
    /\ \E i \in 1..Len(types_json.records) : Lower(types_json.records[i].desc) = Lower(last.desc)
    /\ last.result = NoTypes

\* C5 as stated: with keywords.json missing or malformed, detect_types runs
\* the cache stage and returns the exact cache match when there is one.
C5_MalformedKeywordsReachCache ==
    (last.op = "detect_types" /\ keywords_json.status # "mapping")
    => /\ last.stage \in {"exact", "fuzzy", "none"}
       /\ Lower(last.desc) \in CacheKeys(_data_cache)
          => last.result = TypesOf(CacheGet(_data_cache, Lower(last.desc)))

\* the first entry of the cache, in iteration order, that scores above 75
FirstAbove75(cache, desc_lower) ==
    LET above == {i \in 1..Len(cache) : ratio(cache[i].key, desc_lower) > 75}
    IN  IF above = {} THEN 0 ELSE CHOOSE i \in above : \A j \in above : i <= j

\* C9: when the keyword stage hands over and no key of the cache equals the
\* lowercased description, detect_types returns the category of the first
\* entry in iteration order that scores above 75, and ("", "") if none does.
C9_FirstAboveThreshold ==
    (/\ last.op = "detect_types"
     /\ KeywordFallsThrough(last.desc, keywords_json)
     /\ Lower(last.desc) \notin CacheKeys(_data_cache))
    => LET first == FirstAbove75(_data_cache, Lower(last.desc))
       IN  last.result = IF first = 0 THEN NoTypes ELSE TypesOf(_data_cache[first].item)

\* C9 witness: the fuzzy loop returned an entry that follows one scoring
\* exactly 75 or that precedes one scoring higher with another category
C9_Witness ==
    /\ last.op = "detect_types"
    /\ last.stage = "fuzzy"
    /\ KeywordFallsThrough(last.desc, keywords_json)
    /\ LET d     == Lower(last.desc)
           first == FirstAbove75(_data_cache, d)
       IN  /\ first = 1
           /\ \E j \in 2..Len(_data_cache) :
                 /\ ratio(_data_cache[j].key, d) > ratio(_data_cache[first].key, d)
                 /\ TypesOf(_data_cache[j].item) # last.result

\* C9 witness of the strict comparison: the only entry scores exactly 75
C9_Witness75 ==
    /\ last.op = "detect_types"
    /\ last.stage = "none"
    /\ \E i \in 1..Len(_data_cache) : ratio(_data_cache[i].key, Lower(last.desc)) = 75

----------------------------------------------------------------------------
(* Properties of get_types_data *)

IsCall(op) == op \in {"detect_types", "get_types_data"}

\* C6 as stated: once get_types_data has read the store in a process, no
\* later call reads the store again or changes the cache.
C6_StoreLoadedOnce ==
    [][ (loads >= 1 /\ IsCall(last'.op))
        => /\ ~last'.read
           /\ loads' = loads
           /\ _data_cache' = _data_cache ]_vars

\* the records of the store that have both types
Typed(records) ==
    {i \in 1..Len(records) : records[i].main_type # "" /\ records[i].sub_type # ""}

\* C7: after the lazy load from a list of records, the cache has one entry for
\* each distinct lowercased desc of the records that have both types, and each
\* key maps to the last such record of the store.
C7_LoadKeepsLastTypedRecord ==
    (/\ last.read
     /\ types_json.status = "list"
     /\ \A i \in Typed(types_json.records) : types_json.records[i].desc # NoDesc)
    => LET recs == types_json.records
           keys == {Lower(recs[i].desc) : i \in Typed(recs)}
       IN  /\ CacheKeys(_data_cache) = keys
           /\ Len(_data_cache) = Cardinality(keys)
           /\ \A n \in 1..Len(_data_cache) :
                 \E i \in Typed(recs) :
                     /\ Lower(recs[i].desc) = _data_cache[n].key
                     /\ _data_cache[n].item = recs[i]
                     /\ \A j \in Typed(recs) :
                           Lower(recs[j].desc) = _data_cache[n].key => j <= i

\* C7 witness: the store was read and two of its records with both types have
\* the same lowercased desc and different types
C7_Witness ==
    /\ last.read
    /\ types_json.status = "list"
    /\ Len(_data_cache) = 1
    /\ \E i, j \in Typed(types_json.records) :
          /\ i < j
          /\ types_json.records[i].desc # NoDesc
          /\ Lower(types_json.records[i].desc) = Lower(types_json.records[j].desc)
          /\ types_json.records[i] # types_json.records[j]
          /\ _data_cache[1].item = types_json.records[j]

\* the store is missing or malformed: not JSON, not a list of records, or a
\* list with a record that has no desc
StoreMalformed(store) ==
    \/ store.status \in {"missing", "unparseable", "notlist"}
    \/ \E i \in 1..Len(store.records) : store.records[i].desc = NoDesc

\* C8 as stated: get_types_data never raises, and the cache is empty after it
\* read a missing or malformed store.
C8_MalformedStoreLeavesCacheEmpty ==
    (last.read /\ StoreMalformed(types_json))
    => ~last.raised /\ _data_cache = <<>>

----------------------------------------------------------------------------
(* Properties of refresh_types_data *)

SucceededRefresh == last.op = "refresh_types_data" /\ last.status = "success"

\* the records of the store before the run (none when there was no store)
PriorRecords == IF last.prior.status = "list" THEN last.prior.records ELSE <<>>

\* the row has both types, is not flagged "Yes", and its lowercased desc is
\* the lowercased desc of no record that the store held before the run
Unseen(row) ==
    /\ row.main_type # "" /\ row.sub_type # ""
    /\ row.bot_identified # "Yes"
    /\ \A i \in 1..Len(PriorRecords) : Lower(PriorRecords[i].desc) # Lower(row.desc)

\* C10: after a successful refresh_types_data the store is the prior records,
\* in their order, followed by the fetched rows that have both types, are not
\* flagged "Yes" and whose lowercased desc was not in the prior store.
C10_RefreshAppendsUnseenHumanRows ==
    SucceededRefresh
    => LET rows == SelectSeq(sheet, Unseen)
       IN  /\ types_json.status = "list"
           /\ types_json.records =
                 PriorRecords \o [i \in 1..Len(rows) |->
                                     [desc |-> rows[i].desc,
                                      main_type |-> rows[i].main_type,
                                      sub_type |-> rows[i].sub_type]]

\* C10 witness: a successful run over a store that held a record appended one
\* row and left out a human-typed row whose desc the store held in another case
C10_Witness ==
    /\ SucceededRefresh
    /\ last.prior.status = "list"
    /\ Len(types_json.records) = Len(last.prior.records) + 1
    /\ Len(last.prior.records) >= 1
    /\ \E i \in 1..Len(sheet) :
          /\ sheet[i].main_type # "" /\ sheet[i].sub_type # "" /\ sheet[i].bot_identified = "No"
          /\ ~Unseen(sheet[i])
          /\ \A k \in 1..Len(PriorRecords) : PriorRecords[k].desc # sheet[i].desc

\* C10 witness of the creation: a successful run created the store
C10_WitnessCreated ==
    /\ SucceededRefresh
    /\ last.prior.status = "missing"
    /\ types_json.status = "list"
    /\ Len(types_json.records) >= 1

----------------------------------------------------------------------------
(* Properties of a sequence of reconciliations *)

\* refresh_types_data has just run for the second time in succession, both
\* runs having fetched the rows of the sheet, and the first one not stopped at
\* the opening of the store for writing
SecondRun == last.op = "refresh_types_data" /\ last.again /\ last.fault # "fetch"

\* C11: when refresh_types_data runs twice in succession with the same
\* fetched rows, the store after the second run is the store after the first
\* run (last.prior), in length and in records, whatever the store was before
C11_SecondRunLeavesStore ==
    SecondRun => /\ types_json = last.prior
                 /\ Len(types_json.records) = Len(PriorRecords)

\* a second run over a store to which the first run appended two rows of the
\* sheet that have the same description
C11_Witness ==
    /\ SecondRun
    /\ last.status = "success"
    /\ \E i, j \in 1..Len(types_json.records) :
          /\ i < j
          /\ types_json.records[i].desc = types_json.records[j].desc
          /\ \E m, n \in 1..Len(sheet) :
                /\ m < n
                /\ types_json.records[i] = NewType(sheet[m])
                /\ types_json.records[j] = NewType(sheet[n])

\* a caller has classified a description right after a successful run of
\* refresh_types_data appended the record last.appended[i] with that description
AppendedThenDetected(i) ==
    /\ last.op = "detect_types"
    /\ i \in 1..Len(last.appended)
    /\ last.appended[i].desc = last.desc

\* no other record appended by the run has the description of the i-th one
OnlyOneAppended(i) ==
    \A j \in 1..Len(last.appended) :
        Lower(last.appended[j].desc) = Lower(last.appended[i].desc) => j = i

\* the last record appended by the run with the description of the i-th one
LastAppended(i) ==
    LET same == {j \in 1..Len(last.appended) :
                    Lower(last.appended[j].desc) = Lower(last.appended[i].desc)}
    IN  last.appended[CHOOSE j \in same : \A k \in same : k <= j]

\* C12 as stated, for the rows whose description no other appended row has:
\* the next detect_types call on an appended row's description returns that
\* row's (main_type, sub_type)
C12_AppendedRowClassifiedAtOnce ==
    \A i \in 1..Len(last.appended) :
        AppendedThenDetected(i) /\ OnlyOneAppended(i)
            => last.result = TypesOf(last.appended[i])

\* C12, amended: when the keyword stage hands over to the cache stage, the
\* next detect_types call on an appended row's description returns the
\* (main_type, sub_type) of the last row appended with that description
C12_AppendedRowClassifiedAfterKeywords ==
    \A i \in 1..Len(last.appended) :
        AppendedThenDetected(i) /\ KeywordFallsThrough(last.desc, keywords_json)
            => /\ last.result = TypesOf(LastAppended(i))
               /\ last.stage = "exact"

\* the run appended a row while the cache held another key, and the next call
\* returned the row's types
C12_Witness ==
    /\ \E i \in 1..Len(last.appended) :
          /\ AppendedThenDetected(i)
          /\ OnlyOneAppended(i)
          /\ last.result = TypesOf(last.appended[i])
    /\ loads = 1
    /\ ~last.read
    /\ \E k \in 1..Len(_data_cache) : _data_cache[k].key # Lower(last.desc)

\* the run appended two rows with the same description and different types,
\* and the next call returned the types of the second
C12_WitnessSameDescription ==
    \E i, j \in 1..Len(last.appended) :
        /\ i < j
        /\ AppendedThenDetected(i)
        /\ last.appended[j].desc = last.desc
        /\ TypesOf(last.appended[i]) # TypesOf(last.appended[j])
        /\ last.result = TypesOf(last.appended[j])

----------------------------------------------------------------------------
(* Properties of the feedback loop *)

\* C13: when every row of the sheet was written by update_google_sheet and no
\* human edits the sheet, a row that carries a category carries
\* bot_identified "Yes", no run of refresh_types_data changes the records of
\* the store, and the cache holds nothing but records of the store
C13_OnlyHumanRowsFeedBack ==
    /\ \A i \in 1..Len(sheet) :
          (sheet[i].main_type # "" \/ sheet[i].sub_type # "")
              => sheet[i].bot_identified = "Yes"
    /\ last.op = "refresh_types_data" => types_json.records = PriorRecords
    /\ \A k \in 1..Len(_data_cache) :
          \E n \in 1..Len(types_json.records) :
              _data_cache[k].item = types_json.records[n]

\* refresh_types_data has run with success over a sheet that holds a row
\* typed by detect_types, and the store has the records it had
C13_Witness ==
    /\ last.op = "refresh_types_data"
    /\ last.status = "success"
    /\ \E i \in 1..Len(sheet) :
          sheet[i].main_type # "" /\ sheet[i].bot_identified = "Yes"
    /\ Len(types_json.records) >= 1

----------------------------------------------------------------------------
(* Properties of the result of refresh_types_data *)

\* nothing failed in the run: no fault met, and the store was missing or a
\* list of records that all have a desc
RunWithoutFailure ==
    /\ last.fault = "none"
    /\ \/ last.prior.status = "missing"
       \/ /\ last.prior.status = "list"
          /\ \A i \in 1..Len(last.prior.records) : last.prior.records[i].desc # NoDesc

\* C14: no exception leaves refresh_types_data; a run in which something
\* failed (the fetch, the reading or parsing of the store, the opening of the
\* store for writing, a message) returns status "error" with a message, and a
\* run in which nothing failed returns status "success"
C14_RefreshNeverRaises ==
    last.op = "refresh_types_data"
        => /\ ~last.raised
           /\ last.message # ""
           /\ last.status = IF RunWithoutFailure THEN "success" ELSE "error"

\* a run that failed while sending a message, after it had appended a row
C14_Witness ==
    /\ last.op = "refresh_types_data"
    /\ last.fault = "send"
    /\ last.status = "error"
    /\ Len(types_json.records) > Len(PriorRecords)

----------------------------------------------------------------------------
(* What detect_types leaves unchanged *)

\* C15: a step of detect_types leaves the store as it is and changes the
\* cache only by a load done while the cache is empty; a call made with a
\* non-empty cache, or one that ends at the keyword stage, reads nothing and
\* leaves the cache as it is; and the store gets more records only in a step
\* of refresh_types_data
C15_DetectTypesFrame ==
    [][ /\ last'.op = "detect_types"
            => /\ types_json' = types_json
               /\ last'.read => _data_cache = <<>>
               /\ _data_cache' # _data_cache => last'.read
               /\ (_data_cache # <<>> \/ last'.stage \in {"food", "groceries"})
                      => ~last'.read /\ _data_cache' = _data_cache
        /\ Len(types_json'.records) > Len(types_json.records)
            => last'.op = "refresh_types_data" ]_vars

\* a call that went through the cache stage with a loaded cache and read
\* nothing, in a process that has loaded the store once
C15_Witness ==
    /\ last.op = "detect_types"
    /\ last.stage \in {"exact", "fuzzy"}
    /\ ~last.read
    /\ loads = 1
    /\ _data_cache # <<>>

----------------------------------------------------------------------------
(* The cache and the store *)

\* the store is missing or is a list of records that all have a desc
WellFormed(store) ==
    \/ store.status = "missing"
    \/ /\ store.status = "list"
       /\ \A i \in 1..Len(store.records) : store.records[i].desc # NoDesc

\* the cache holds exactly the records of the store that have both types: one
\* entry for each lowercased desc, mapping to the last such record
Mirrors(cache, store) ==
    LET recs == store.records
        keys == {Lower(recs[i].desc) : i \in Typed(recs)}
    IN  /\ CacheKeys(cache) = keys
        /\ Len(cache) = Cardinality(keys)
        /\ \A n \in 1..Len(cache) :
              \E i \in Typed(recs) :
                  /\ Lower(recs[i].desc) = cache[n].key
                  /\ cache[n].item = recs[i]
                  /\ \A j \in Typed(recs) : Lower(recs[j].desc) = cache[n].key => j <= i

CacheStages == {"exact", "fuzzy", "none"}

\* C16: over a well-formed store, after every step of detect_types,
\* get_types_data, refresh_types_data or a restart, the cache is empty with
\* nothing loaded yet in the process, or holds exactly the store's records
\* that have both types under their lowercased desc; and the first call of
\* detect_types of a process that reaches the cache stage with the cache still
\* empty reads the store and leaves the cache holding all those records
C16_CacheEmptyOrMirrorsStore ==
    [][ /\ WellFormed(types_json')
            => \/ _data_cache' = <<>> /\ loads' = 0
               \/ Mirrors(_data_cache', types_json')
        /\ (/\ loads = 0
            /\ _data_cache = <<>>
            /\ last'.op = "detect_types"
            /\ last'.stage \in CacheStages)
            => /\ last'.read
               /\ WellFormed(types_json') => Mirrors(_data_cache', types_json') ]_vars

\* a run of refresh_types_data has appended a row to a store that the process
\* had loaded, and the cache holds the old and the new record
C16_Witness ==
    /\ SucceededRefresh
    /\ loads = 1
    /\ Len(types_json.records) > Len(PriorRecords)
    /\ Len(PriorRecords) >= 1
    /\ Len(_data_cache) >= 2
    /\ Mirrors(_data_cache, types_json)

\* the first call of detect_types that reached the cache stage has loaded a
\* store of two records with both types and different keys
C16_WitnessRestart ==
    /\ last.op = "detect_types"
    /\ last.read
    /\ last.stage \in CacheStages
    /\ Len(_data_cache) = 2
    /\ WellFormed(types_json)

C18_KeysNeverRemoved ==
    [][ last'.op # "restart"
            => CacheKeys(_data_cache) \subseteq CacheKeys(_data_cache') ]_vars

\* a run of refresh_types_data has added a key to a cache that held another
C18_Witness ==
    /\ last.op = "refresh_types_data"
    /\ loads = 1
    /\ \E k, n \in 1..Len(_data_cache) :
          /\ \E i \in 1..Len(PriorRecords) :
                PriorRecords[i].desc # NoDesc
                /\ Lower(PriorRecords[i].desc) = _data_cache[k].key
          /\ \A i \in 1..Len(PriorRecords) :
                PriorRecords[i].desc # NoDesc
                => Lower(PriorRecords[i].desc) # _data_cache[n].key

----------------------------------------------------------------------------
(* Properties of match_keywords *)

\* w is a whitespace-delimited word of s: a run of non-blank characters of s
\* with a blank or an end of s on either side
IsWordOf(w, s) ==
    /\ w # <<>>
    /\ \A k \in 1..Len(w) : w[k] # " "
    /\ \E i \in 1..Len(s) :
          /\ StartsAt(w, s, i)
          /\ i = 1 \/ s[i - 1] = " "
          /\ i + Len(w) - 1 = Len(s) \/ s[i + Len(w)] = " "

\* w occurs somewhere in s
OccursIn(w, s) == \E i \in 1..(Len(s) + 1) : StartsAt(w, s, i)

\* C19: match_keywords(description, keywords) is true exactly when some
\* lowercased keyword is a whitespace-delimited word of the lowercased
\* description; so a keyword that is only part of a word does not match, and
\* an empty list never matches
C19_MatchIsSharedWord ==
    last.op = "match_keywords"
        => /\ last.matched
                <=> \E n \in 1..Len(last.keywords) :
                        IsWordOf(Lower(last.keywords[n]), Lower(last.desc))
           /\ last.keywords = <<>> => ~last.matched

\* a call in which a keyword occurs in the description only as part of a word
C19_Witness ==
    /\ last.op = "match_keywords"
    /\ ~last.matched
    /\ \E n \in 1..Len(last.keywords) :
          OccursIn(Lower(last.keywords[n]), Lower(last.desc))

\* a call in which a keyword matches a word that is written in another case
\* and is not the first word
C19_WitnessMatch ==
    /\ last.op = "match_keywords"
    /\ last.matched
    /\ last.keywords = <<<<"B">>>>
    /\ last.desc = <<"a", " ", "b">>

----------------------------------------------------------------------------
(* The order of the keyword rules *)

\* C20: with keywords.json a mapping, a description that shares a word with
\* the food keywords and a word with the groceries keywords is classified by
\* the food rule, and one that shares a word with the groceries keywords only
\* is classified by the groceries rule
C20_FoodBeforeGroceries ==
    (last.op = "detect_types" /\ keywords_json.status = "mapping")
        => /\ (/\ SharesWord(last.desc, keywords_json.food)
               /\ SharesWord(last.desc, keywords_json.groceries))
                  => last.stage = "food" /\ last.result = FoodRule
           /\ (/\ ~SharesWord(last.desc, keywords_json.food)
               /\ SharesWord(last.desc, keywords_json.groceries))
                  => last.stage = "groceries" /\ last.result = GroceriesRule

\* a description with a food keyword and a groceries keyword got the food pair
C20_Witness ==
    /\ last.op = "detect_types"
    /\ keywords_json.status = "mapping"
    /\ SharesWord(last.desc, keywords_json.food)
    /\ SharesWord(last.desc, keywords_json.groceries)
    /\ last.result = <<"Food", "Outside Food/Dining/Snacks">>

\* a description with a groceries keyword only got the groceries pair, under
\* a file that has food keywords too
C20_WitnessGroceries ==
    /\ last.op = "detect_types"
    /\ keywords_json.status = "mapping"
    /\ keywords_json.food # <<>>
    /\ ~SharesWord(last.desc, keywords_json.food)
    /\ last.result = <<"Household", "Groceries">>

----------------------------------------------------------------------------
(* The keyword source during a process *)

\* C21 as stated: the rule set is fixed for the process, so when a call of
\* detect_types was decided by a keyword rule, the next call of the process
\* on the same description returns the same pair, whatever happened to
\* keywords.json in between
C21_KeywordRulesFixed ==
    [][ (/\ last.op = "detect_types"
         /\ last.stage \in {"food", "groceries"}
         /\ last'.op = "detect_types"
         /\ last'.desc = last.desc)
            => last'.result = last.result ]_vars

----------------------------------------------------------------------------
(* The misspelling scenario *)

\* C22: with the cache {"starbucks coffee": ("Food", "Beverages")} and no
\* keyword match, detect_types on "starbucks cofee", and on every other
\* description at edit distance 1 from the key, scores above 75 and returns
\* ("Food", "Beverages") by the fuzzy scan
C22_MisspellingMatches ==
    (/\ last.op = "detect_types"
     /\ last.desc \in Misspellings(s_starbucks_coffee)
     /\ KeywordFallsThrough(last.desc, keywords_json)
     /\ CacheKeys(_data_cache) = {s_starbucks_coffee})
        => /\ ratio(s_starbucks_coffee, Lower(last.desc)) > FUZZY_MATCH_THRESHOLD
           /\ last.stage = "fuzzy"
           /\ last.result = <<"Food", "Beverages">>

\* the call on "starbucks cofee" has returned the cached pair
C22_Witness ==
    /\ last.op = "detect_types"
    /\ last.desc = s_starbucks_cofee
    /\ CacheKeys(_data_cache) = {s_starbucks_coffee}
    /\ last.stage = "fuzzy"
    /\ last.result = <<"Food", "Beverages">>

----------------------------------------------------------------------------
(* An error result of refresh_types_data *)

\* C30 as stated: a run of refresh_types_data that returns status "error"
\* leaves the store and the cache as they were before the run
C30_ErrorLeavesStoreAndCache ==
    [][ (last'.op = "refresh_types_data" /\ last'.status = "error")
            => types_json' = types_json /\ _data_cache' = _data_cache ]_vars

----------------------------------------------------------------------------
(* Properties of applicable_reminders *)

\* the date_range is "a-b" with numbers a and b, and a <= today <= b
InRange(rem, today) ==
    LET parts == SplitOn(rem.date_range, "-")
    IN  /\ Len(parts) = 2
        /\ ParseInt(parts[1]) # NaN
        /\ ParseInt(parts[2]) # NaN
        /\ ParseInt(parts[1]) <= today
        /\ today <= ParseInt(parts[2])

\* a is seq with some entries left out, the order kept
RECURSIVE IsSubSeq(_, _)
IsSubSeq(a, seq) ==
    IF a = <<>> THEN TRUE
    ELSE IF seq = <<>> THEN FALSE
    ELSE IF Head(a) = Head(seq) THEN IsSubSeq(Tail(a), Tail(seq))
    ELSE IsSubSeq(a, Tail(seq))

\* the entries of the file that are in range today, in the order of the file
RECURSIVE EntriesInRange(_, _)
EntriesInRange(reminders, today) ==
    IF reminders = <<>> THEN <<>>
    ELSE IF InRange(Head(reminders), today)
         THEN <<Head(reminders)>> \o EntriesInRange(Tail(reminders), today)
         ELSE EntriesInRange(Tail(reminders), today)

\* C26: applicable_reminders never raises and returns exactly the entries of
\* the reminders file whose date_range "a-b" has a <= today <= b, whatever the
\* other entries are; a missing file gives the empty list
C26_ExactlyTheEntriesInRange ==
    last.op = "applicable_reminders"
        => /\ ~last.raised
           /\ last.applicable = EntriesInRange(reminders_json.reminders, last.today)

\* what the code does keep: every entry returned is an entry in range, and a
\* missing file gives the empty list
C26_OnlyEntriesInRange ==
    last.op = "applicable_reminders"
        => /\ ~last.raised
           /\ IsSubSeq(last.applicable,
                       EntriesInRange(reminders_json.reminders, last.today))
           /\ reminders_json.status = "missing" => last.applicable = <<>>

\* an entry in range follows an entry whose date_range does not parse, and is
\* not returned
C26_Lost ==
    /\ last.op = "applicable_reminders"
    /\ reminders_json.status = "list"
    /\ Len(reminders_json.reminders) = 2
    /\ reminders_json.reminders[1].date_range = d_x_2
    /\ InRange(reminders_json.reminders[2], last.today)
    /\ last.applicable = <<>>

----------------------------------------------------------------------------
(* Properties of active_reminders *)

\* a fetched expense with both types set has the types of the reminder
AlreadyLogged(rem) ==
    \E k \in 1..Len(sheet) :
        /\ sheet[k].main_type # "" /\ sheet[k].sub_type # ""
        /\ sheet[k].main_type = rem.main_type
        /\ sheet[k].sub_type = rem.sub_type

\* the reminders of the list that are not logged, in the order of the list
RECURSIVE NotLogged(_)
NotLogged(list) ==
    IF list = <<>> THEN <<>>
    ELSE IF AlreadyLogged(Head(list)) THEN NotLogged(Tail(list))
         ELSE <<Head(list)>> \o NotLogged(Tail(list))

\* C25: what active_reminders returns is exactly the reminders applicable
\* today for which no fetched expense with both types set has the reminder's
\* main_type and sub_type, in the order of the applicable list; a reminder
\* whose expense is logged is never returned
C25_OpenRemindersOnly ==
    (last.op = "active_reminders" /\ ~last.raised)
        => /\ last.applicable = EntriesInRange(reminders_json.reminders, last.today)
           /\ last.reminders = NotLogged(last.applicable)
           /\ \A i \in 1..Len(last.reminders) : ~AlreadyLogged(last.reminders[i])

\* two reminders are applicable, the expense of the first is logged and
\* the second is returned
C25_Witness ==
    /\ last.op = "active_reminders"
    /\ ~last.raised
    /\ Len(last.applicable) = 2
    /\ AlreadyLogged(last.applicable[1])
    /\ last.reminders = <<last.applicable[2]>>

\* a reminder is returned although an expense with its main_type and another
\* sub_type is logged
C25_WitnessOtherSubType ==
    /\ last.op = "active_reminders"
    /\ Len(last.reminders) = 1
    /\ last.reminders[1].sub_type = "Bus"
    /\ \E k \in 1..Len(sheet) : sheet[k] = Row(s_abcd, TransportCab, "No")

----------------------------------------------------------------------------
(* Properties of handle_credit_card_reminders *)

\* the amount of the row, blanks and commas apart
AmountOf(row) == Remove(Remove(row[3], " "), ",")

\* the row is not marked paid, its amount is not empty and not zero, and its
\* due date is the given day
DueOn(row, day) ==
    /\ Len(row) >= 4 => Lower(row[4]) # <<"p", "a", "i", "d">>
    /\ AmountOf(row) # <<>>
    /\ \E i \in 1..Len(AmountOf(row)) : AmountOf(row)[i] \notin {"0", "."}
    /\ row[1] = day

\* the messages that the claim asks for: for each row due today or tomorrow,
\* in the order of the range, one message per allowed user
RECURSIVE DueMessages(_, _, _)
DueMessages(rows, today, ids) ==
    IF rows = <<>> THEN <<>>
    ELSE LET row == Head(rows)
             text == IF DueOn(row, today)
                     THEN <<[name |-> row[2], due |-> "today"]>>
                     ELSE IF DueOn(row, Tomorrow(today))
                     THEN <<[name |-> row[2], due |-> "tomorrow"]>>
                     ELSE <<>>
         IN  (IF text = <<>> THEN <<>> ELSE Messages(ids, text[1]))
                 \o DueMessages(Tail(rows), today, ids)

\* the scheduled job has run over the range as fetched
JobRan == last.op = "handle_credit_card_reminders" /\ ~last.update /\ last.fault = "none"

\* every row has its four cells and an amount that is empty or a number
PlainRows ==
    \A k \in 1..Len(cards) :
        /\ Len(cards[k]) >= 4
        /\ AmountOf(cards[k]) # <<>> => IsFloat(AmountOf(cards[k]))

\* C27: called without an update, handle_credit_card_reminders sends one
\* message per allowed user for exactly the cards that are not marked paid,
\* have a non-zero amount and are due today or tomorrow; no other card causes
\* a message
C27_MessagesForDueCardsOnly ==
    JobRan => last.sent = DueMessages(cards, last.date, config.ids_allowed_to_chat_with_bot)

\* what the code does keep: over rows of four cells whose amounts are numbers
\* or empty, the messages are exactly those of the due cards
C27_PlainRowsMessages ==
    (JobRan /\ PlainRows)
        => /\ ~last.raised
           /\ last.sent = DueMessages(cards, last.date, config.ids_allowed_to_chat_with_bot)

\* a card due today follows a card whose amount is not a number, and no
\* message is sent
C27_Lost ==
    /\ JobRan
    /\ Len(cards) = 2
    /\ cards[1][3] = a_NA
    /\ DueOn(cards[2], last.date)
    /\ last.raised
    /\ last.sent = <<>>

\* two users are allowed and each gets the message of the one due card
C27_WitnessTwoUsers ==
    /\ JobRan
    /\ PlainRows
    /\ Len(last.sent) = 2
    /\ last.sent[1].chat_id = 1
    /\ last.sent[2].chat_id = 3
    /\ last.sent[1].text = last.sent[2].text

----------------------------------------------------------------------------
(* Properties of the token checks *)

\* the request just answered carried a token header that differs from the
\* token configured for its endpoint
WrongToken(l) ==
    \/ l.op \in {"/types_refresh", "/reminders"} /\ l.header # config.scheduler_token
    \/ l.op = "/bot" /\ l.header # config.secret_token

\* C23: a request to /types_refresh, /reminders or POST /bot whose token
\* header differs from the configured token is answered 401 and runs nothing:
\* no reconciliation, no reminder message, no handler of the update; store,
\* cache, sheet and conversations stay as they are
C23_WrongTokenRunsNothing ==
    [][ WrongToken(last')
            => /\ last'.code = 401
               /\ last'.ran = <<>>
               /\ last'.sent = <<>>
               /\ last'.handler = "none"
               /\ UNCHANGED <<types_json, _data_cache, loads, sheet, conv, show_markup>>
      ]_vars

\* a request without the header is refused on POST /bot while a conversation
\* waits for an expense
C23_Witness ==
    /\ last.op = "/bot"
    /\ last.header = None
    /\ last.code = 401
    /\ conv[1][1] = 0

\* a request with the token of the bot is refused on /reminders while a
\* reminder is open and a card is due
C23_WitnessReminders ==
    /\ last.op = "/reminders"
    /\ last.header = "secret"
    /\ last.code = 401
    /\ reminders_json.status = "list"
    /\ cards # <<>>

----------------------------------------------------------------------------
(* Properties of restricted *)

IsAllowed(id) ==
    \E k \in 1..Len(config.ids_allowed_to_chat_with_bot) :
        config.ids_allowed_to_chat_with_bot[k] = id

\* the update just processed was a text for which conv_handler picked end_conv
ToEndConv(l) == l.op = "/bot" /\ l.code = 200 /\ l.kind = "text" /\ l.before \in {END, 0}

\* C24: end_conv, wrapped by restricted, runs only for a user whose id is in
\* the allowed list; for any other user the wrapper returns None, the handler
\* does not run and no expense is appended to the sheet
C24_OnlyAllowedUsersLog ==
    [][ ToEndConv(last')
            => /\ last'.handler = "end_conv" <=> IsAllowed(last'.user)
               /\ ~IsAllowed(last'.user)
                     => /\ last'.state = NoState
                        /\ last'.calls = <<>>
                        /\ sheet' = sheet
                        /\ conv' = conv
      ]_vars

\* a user who is not allowed sends a well-formed expense after an allowed
\* user has logged one: nothing runs
C24_Witness ==
    /\ ToEndConv(last)
    /\ last.user = 2
    /\ last.text = t_ab_5
    /\ last.handler = "none"
    /\ Len(sheet) = 1

----------------------------------------------------------------------------
(* Properties of start *)

\* C28: /expense moves the conversation to state 0 and sets show_markup only
\* when the chat id is in the allowed list; for any other chat start ends the
\* conversation and does not set show_markup
C28_StartOnlyInAllowedChats ==
    [][ (last'.op = "/bot" /\ last'.code = 200 /\ last'.kind = "/expense")
            => /\ (\/ conv'[last'.chat][last'.user] = 0
                   \/ show_markup'[last'.user] /\ ~show_markup[last'.user])
                     => IsAllowed(last'.chat) /\ last'.handler = "start"
               /\ (last'.handler = "start" /\ IsAllowed(last'.chat))
                     => /\ conv'[last'.chat][last'.user] = 0
                        /\ show_markup'[last'.user]
               /\ (last'.handler = "start" /\ ~IsAllowed(last'.chat))
                     => /\ conv'[last'.chat][last'.user] = END
                        /\ show_markup' = show_markup
      ]_vars

\* /expense in the private chat of the allowed user
C28_Witness ==
    /\ last.op = "/bot"
    /\ last.handler = "start"
    /\ last.chat = 1
    /\ conv[1][1] = 0
    /\ show_markup[1]
    /\ ~last.flag

\* /expense of a user who is not allowed, in that user's private chat
C28_WitnessRefused ==
    /\ last.op = "/bot"
    /\ last.handler = "start"
    /\ last.chat = 2
    /\ conv[2][2] = END
    /\ ~show_markup[2]

----------------------------------------------------------------------------
(* Properties of the conversation *)

\* the text matches the pattern "description amount..."
WellFormedText(text) == pattern_search(text).match

\* the number of lines of the text that match the pattern
WellFormedLines(text) ==
    Cardinality({k \in 1..Len(Lines(text)) : WellFormedText(Lines(text)[k])})

\* the calls of update_google_sheet that the text asks for: one for a message
\* of a conversation, one per line of a direct input
CallsAskedFor(l) ==
    IF l.flag THEN (IF WellFormedText(l.text) THEN 1 ELSE 0)
    ELSE WellFormedLines(l.text)

\* an allowed user has sent a text
TextOfAllowed(l) ==
    l.op = "/bot" /\ l.code = 200 /\ l.kind = "text" /\ IsAllowed(l.user)

\* the steps of the buttons: add_more returns to state 0, done ends
ButtonSteps ==
    (last'.op = "/bot" /\ last'.code = 200 /\ last'.kind = "button" /\ last'.before = 1)
        => /\ last'.data = "add_more" => conv'[last'.chat][last'.user] = 0
           /\ last'.data = "done" => conv'[last'.chat][last'.user] = END

SheetError(l) == l.fault # "none" /\ ~l.http

C29_WitnessError ==
    /\ TextOfAllowed(last)
    /\ last.flag
    /\ last.before = 0
    /\ WellFormedText(last.text)
    /\ SheetError(last)
    /\ conv[last.chat][last.user] = END

\* a direct input of two lines causes two calls
C29_WitnessLines ==
    /\ TextOfAllowed(last)
    /\ ~last.flag
    /\ last.text = t_two
    /\ last.calls = <<t_ab, t_ab>>
    /\ Len(sheet) = 2

\* the button done ends the conversation
C29_WitnessDone ==
    /\ last.op = "/bot"
    /\ last.handler = "button"
    /\ last.data = "done"
    /\ conv[last.chat][last.user] = END

----------------------------------------------------------------------------
(* Confirmations of end_conv *)

\* C33: end_conv confirms an expense as noted only if the append to the sheet
\* succeeded: whenever update_google_sheet returns an error string (of an
\* HttpError or of any other exception), no expense of the message is
\* confirmed and the error is replied, in conversation mode and in direct mode
C33_NotedOnlyIfAppended ==
    (last.op = "/bot" /\ last.handler = "end_conv" /\ last.fault # "none")
        => /\ last.results = <<>>
           /\ last.calls # <<>> => Len(last.errors) >= Len(last.calls)

\* what the code does keep: a description is confirmed only if the append
\* succeeded or the exception was an HttpError
C33_NotedUnlessErrorBang ==
    (last.op = "/bot" /\ last.handler = "end_conv" /\ last.fault # "none" /\ ~last.http)
        => last.results = <<>>

\* the append raised an HttpError, nothing was appended, and the expense is
\* confirmed in conversation mode
C33_ConfirmedWithoutAppend ==
    /\ last.op = "/bot"
    /\ last.handler = "end_conv"
    /\ last.flag
    /\ last.fault = "append"
    /\ last.http
    /\ last.results = <<t_ab>>
    /\ sheet = <<>>
    /\ conv[last.chat][last.user] = 1

----------------------------------------------------------------------------
(* The store after reconciliations from a missing or empty store           *)

\* C31 (as stated): started from a missing or empty store, after any number
\* of reconciliations no two records of the store have the same lowercased
\* description
C31_NoDuplicateDescriptions ==
    \A i, j \in 1..Len(types_json.records) :
        Lower(types_json.records[i].desc) = Lower(types_json.records[j].desc)
            => i = j

\* what does hold: a reconciliation appends no row whose lowercased
\* description the store already held before it
C31_NothingAppendedTwiceAcrossRuns ==
    (last.op = "refresh_types_data" /\ last.status = "success"
        /\ last.prior.status = "list")
        => \A i \in 1..Len(last.prior.records) :
             \A j \in (Len(last.prior.records) + 1)..Len(types_json.records) :
                Lower(types_json.records[j].desc) # Lower(last.prior.records[i].desc)

\* one fetch with two human-typed rows of one description, over a missing
\* store, has written both
C31_BothRowsWritten ==
    /\ last.op = "refresh_types_data" /\ last.status = "success"
    /\ last.prior.status = "missing"
    /\ types_json.status = "list"
    /\ types_json.records = <<Record(s_abcd, TransportCab), Record(s_abcd, FoodBeverages)>>

----------------------------------------------------------------------------
(* Entries of the cache are fully typed                                    *)

\* C32: every entry of the in-memory cache has a non-empty main_type and a
\* non-empty sub_type, after lazy loads and after reconciliations; so
\* detect_types returns ("", "") or a pair with both components non-empty
C32_NoHalfFilledPair ==
    /\ \A i \in 1..Len(_data_cache) :
          /\ _data_cache[i].item.main_type # ""
          /\ _data_cache[i].item.sub_type # ""
    /\ last.op = "detect_types"
          => \/ last.result = NoTypes
             \/ last.result[1] # "" /\ last.result[2] # ""

\* a store with a half-typed record was loaded lazily, and detect_types
\* answered from the cache
C32_Witness ==
    /\ last.op = "detect_types"
    /\ last.read
    /\ last.stage \in {"exact", "fuzzy"}
    /\ types_json.status = "list"
    /\ \E i \in 1..Len(types_json.records) :
          types_json.records[i].main_type = "" \/ types_json.records[i].sub_type = ""
    /\ _data_cache # <<>>

\* a reconciliation over a store with a half-typed record has reloaded the
\* cache
C32_WitnessReload ==
    /\ last.op = "refresh_types_data"
    /\ last.status = "success"
    /\ \E i \in 1..Len(types_json.records) :
          types_json.records[i].main_type = "" \/ types_json.records[i].sub_type = ""
    /\ _data_cache # <<>>

----------------------------------------------------------------------------
(* The show_markup flag at the end of a conversation                       *)

\* C34 (as stated): whenever a conversation started with /expense has ended
\* (the button Done, /cancel, another command, a sheet error), show_markup is
\* no longer set for the user, and a text that arrives outside a conversation
\* is handled as direct input
C34_FlagClearedAtEnd ==
    /\ (last.op = "/bot" /\ last.code = 200 /\ last.before \in {0, 1}
           /\ last.state = END)
          => ~show_markup[last.user]
    /\ (last.op = "/bot" /\ last.handler = "end_conv" /\ last.before = END)
          => ~last.flag

\* what does hold: the button Done, and nothing else, clears the flag
C34_OnlyDoneClears ==
    [][ (show_markup[last'.user] /\ ~show_markup'[last'.user])
            <=> (/\ last'.handler = "button" /\ last'.data = "done"
                 /\ show_markup[last'.user]) ]_vars

\* after /expense and /cancel the flag is still set, and the two-line direct
\* input that follows is taken as one conversation answer and refused
C34_AnsweredAsConversation ==
    /\ last.op = "/bot" /\ last.handler = "end_conv"
    /\ last.before = END /\ last.flag
    /\ last.text = t_two
    /\ last.calls = <<>> /\ sheet = <<>>
    /\ conv[last.chat][last.user] = 0

\* the conversation has just been ended by /cancel with the flag left set
C34_CancelledWithFlag ==
    /\ last.op = "/bot" /\ last.handler = "cancel"
    /\ conv[last.chat][last.user] = END
    /\ show_markup[last.user]

----------------------------------------------------------------------------
(* Requests without the token header                                       *)

\* C35 (as stated): a request to /types_refresh or /reminders without the
\* header X-Secret-Token is answered 401 and runs neither the reconciliation
\* nor the reminders, whether the scheduler token is configured or not
C35_NoHeaderNeverAuthorized ==
    (last.op \in {"/types_refresh", "/reminders"} /\ last.header = None)
        => /\ last.code = 401
           /\ last.ran = <<>>
           /\ last.sent = <<>>

\* what does hold: with the scheduler token configured, a request without
\* the header is refused
C35_RefusedWhenConfigured ==
    (/\ last.op \in {"/types_refresh", "/reminders"}
     /\ last.header = None
     /\ config.scheduler_token # None)
        => /\ last.code = 401
           /\ last.ran = <<>>
           /\ last.sent = <<>>

\* with the scheduler token not set, a request to /reminders without the
\* header has sent the reminder
C35_RemindersSentToAnyone ==
    /\ config.scheduler_token = None
    /\ last.op = "/reminders"
    /\ last.header = None
    /\ last.code = 200
    /\ last.sent # <<>>

\* with the scheduler token not set, a request to /types_refresh without the
\* header has run the reconciliation
C35_ReconciledForAnyone ==
    /\ config.scheduler_token = None
    /\ last.op = "/types_refresh"
    /\ last.header = None
    /\ last.code = 200
    /\ last.ran = <<"refresh_types_data">>

----------------------------------------------------------------------------
(* Lazy load and reconciliation reload give the same classification        *)

\* C36: for the store and the keywords as they are, detect_types returns for
\* every description what it returns after a restart (a cache filled by the
\* lazy load), whether or not the cache it finds was filled by a
\* reconciliation reload; a cache filled by a reload is, entry by entry and in
\* the same order, the cache that the lazy load builds from the store
C36_SameAfterRestart ==
    /\ \A desc \in Descriptions :
          detect_types(desc, keywords_json, _data_cache, types_json).result
              = detect_types(desc, keywords_json, <<>>, types_json).result
    /\ (last.op = "refresh_types_data" /\ last.status = "success")
          => _data_cache = get_types_data(<<>>, types_json).cache

\* a reconciliation has appended to a store that held a record and reloaded
\* the cache; "ab cd" is then within the threshold of two keys of different
\* types, so the order of the scan decides the answer
C36_Witness ==
    /\ last.op = "refresh_types_data"
    /\ last.status = "success"
    /\ last.prior.status = "list"
    /\ Len(types_json.records) > Len(last.prior.records)
    /\ Len(_data_cache) = 2
    /\ TypesOf(_data_cache[1].item) # TypesOf(_data_cache[2].item)
    /\ ratio(_data_cache[1].key, Lower(s_ab_cd)) > FUZZY_MATCH_THRESHOLD
    /\ ratio(_data_cache[2].key, Lower(s_ab_cd)) > FUZZY_MATCH_THRESHOLD
    /\ detect_types(s_ab_cd, keywords_json, _data_cache, types_json).stage = "fuzzy"

====
